---- MODULE Spec2Model ----
(***************************************************************************)
(* The job queue of imrahulmane/job-queue: the jobs table, the claim       *)
(* statement (FOR UPDATE SKIP LOCKED), the outcome writers, the sweeps and *)
(* the worker runtime, as a state machine.                                 *)
(*                                                                         *)
(* Time is counted in ticks of half a minute, so that the backoff delay    *)
(* 2 ** (attempts - 1) minutes is a whole number of ticks for attempts = 0 *)
(* too (Python gives 0.5 minutes there).                                   *)
(***************************************************************************)
EXTENDS Integers, Sequences, FiniteSets, TLC

\* ------------------------------------------------------------------ bounds
MaxJobs == 2
MaxTime == 1
MaxAdminOps == 1
MaxRetryTime == 8

\* --------------------------------------------------------- configuration
Workers == {"w1", "w2"}
Queues == {"default", "mail"}
\* WORKER_QUEUES of each worker process
WorkerQueues(w) == IF w = "w1" THEN {"default"} ELSE {"default", "mail"}
\* the deployment modelled: MAX_CONCURRENT_JOBS=1 (the default of Worker.__init__),
\* POLL_INTERVAL=1, MAX_POLL_INTERVAL=2 and BACKOFF_FACTOR=2 (seconds), all read from
\* the environment by load_config
max_concurrent_jobs == 1
\* MAX_CONCURRENT_JOBS of the worker that runs a pool of tasks
PoolSize == 2
Slots == 1..PoolSize
poll_interval == 1
max_poll_interval == 2
backoff_factor == 2

\* the job types a producer can name; "nope" stands for a type with no handler
JobTypes == {"emails", "nope"}
\* the registry of handlers
HANDLERS == {"emails", "report_generation", "images_processing"}
HasHandler(job_type) == job_type \in HANDLERS

\* ------------------------------------------------------------------ state
VARIABLES
    jobs,        \* the committed rows of the jobs table: id -> row
    nextId,      \* the id the store assigns to the next insert
    now,         \* the clock, in ticks
    claimTx,     \* per worker: the open claim transaction (row locked, uncommitted)
    producerTx,  \* the producer's open write transaction (row locked, uncommitted)
    active,      \* per worker: active_jobs, slot -> task
    current_poll_interval,  \* per worker
    adminOps,    \* producer / operator calls made so far
    stats,       \* per worker: jobs_processed, jobs_failed, jobs_succeeded
    should_shutdown,  \* per worker: the flag the signal handler and stop() set
    concurrency, \* per worker: self.max_concurrent_jobs
    loop,        \* per worker: where _processing_loop stands
    hist         \* per job: what has happened to it (history, not program state)

vars == <<jobs, nextId, now, claimTx, producerTx, active, current_poll_interval,
          adminOps, stats, should_shutdown, concurrency, loop, hist>>

\* no claim transaction open; prev is what the history of the locked row held before
\* the statement, for a rollback
NoTx == [job |-> 0, at |-> 0, prev |-> [outcome |-> "none", op |-> "none"]]
NoProducerTx == [op |-> "none", job |-> 0]
\* no task in the slot; handler is how handler.execute ended (returned, raised) once
\* it has
NoTask == [job |-> 0, pc |-> "none", handler |-> "none", store |-> "ok"]
EmptyPayload == [data |-> 0, errors |-> <<>>, result |-> "absent"]
\* _processing_loop before its first iteration: pc is top (at the while test), iter
\* (inside an iteration), wait (after the loop, waiting for active_jobs until the
\* time `until`) or exited; caught names the exception the except branch of the last
\* iteration caught (none when it ended normally), polled is "busy" when the last
\* iteration made an empty claim with tasks still in active_jobs
NoLoop == [pc |-> "top", until |-> 0, caught |-> "none", polled |-> "none"]
NoStats == [jobs_processed |-> 0, jobs_failed |-> 0, jobs_succeeded |-> 0]

\* Python truthiness of the payload dict: {} is falsy
Truthy(payload) == payload.data # 0 \/ payload.errors # <<>> \/ payload.result # "absent"

\* ------------------------------------------------------- base repository
\* _get_base_query + get: the row of that id unless soft-deleted
Visible(store, id) == id \in DOMAIN store /\ store[id].is_deleted = FALSE

\* AsyncBaseRepository.update: set the given fields, then updated_at
RepoUpdate(store, id, obj_in, t) ==
    IF ~Visible(store, id) THEN store
    ELSE [store EXCEPT ![id] =
            [f \in DOMAIN store[id] |->
                IF f = "updated_at" THEN t
                ELSE IF f \in DOMAIN obj_in THEN obj_in[f]
                ELSE store[id][f]]]

\* ------------------------------------------------------- job repository
\* (an insert that leaves a missing scheduled_at missing)
NewJobNoDefault(job_type, payload, queue_name, scheduled_at, max_tries, t) ==
    [job_type |-> job_type,
     payload |-> payload,
     queue_name |-> queue_name,
     status |-> "pending",
     scheduled_at |-> scheduled_at,
     attempts |-> 0,
     max_tries |-> max_tries,
     updated_at |-> t,
     is_deleted |-> FALSE]

\* enqueue_job: the row inserted
NewJob(job_type, payload, queue_name, scheduled_at, max_tries, t) ==
    [job_type |-> job_type,
     payload |-> payload,
     queue_name |-> queue_name,
     status |-> "pending",
     scheduled_at |-> IF scheduled_at = -1 THEN t ELSE scheduled_at,
     attempts |-> 0,
     max_tries |-> max_tries,
     updated_at |-> t,
     is_deleted |-> FALSE]

\* JobResponse.model_validate: the attributes of a job a response carries
JobResponse(id, row) ==
    [id |-> id,
     job_type |-> row.job_type,
     payload |-> row.payload,
     queue_name |-> row.queue_name,
     status |-> row.status,
     scheduled_at |-> row.scheduled_at,
     attempts |-> row.attempts,
     max_tries |-> row.max_tries,
     updated_at |-> row.updated_at]

\* the answer that carries no job (404, None)
NoJobResponse == [id |-> 0]

\* JobService.get_job: the job of that id, unless missing or soft-deleted
GetJob(store, id) ==
    IF Visible(store, id) THEN JobResponse(id, store[id]) ELSE NoJobResponse

\* (a WHERE clause without the scheduled_at test)
EligibleAnyTime(row, queue_names, t) ==
    /\ row.status = "pending"
    /\ row.queue_name \in queue_names
    /\ row.is_deleted = FALSE

\* claim_next_job: the WHERE clause of the inner SELECT
Eligible(row, queue_names, t) ==
    /\ row.status = "pending"
    /\ row.queue_name \in queue_names
    /\ row.scheduled_at <= t
    /\ row.is_deleted = FALSE

\* (ORDER BY id ASC alone)
BeforeById(store, a, b) == a < b

\* ORDER BY scheduled_at ASC, id ASC
Before(store, a, b) ==
    \/ store[a].scheduled_at < store[b].scheduled_at
    \/ store[a].scheduled_at = store[b].scheduled_at /\ a < b

\* (a SELECT without SKIP LOCKED that does not wait for the lock either)
ClaimCandidatesNoSkip(store, queue_names, t, locked) ==
    {id \in DOMAIN store : Eligible(store[id], queue_names, t)}

\* FOR UPDATE SKIP LOCKED LIMIT 1: the rows the SELECT can lock
ClaimCandidates(store, queue_names, t, locked) ==
    {id \in DOMAIN store : Eligible(store[id], queue_names, t) /\ id \notin locked}

\* the id the inner SELECT returns, 0 when it returns no row
ClaimSelect(store, queue_names, t, locked) ==
    LET c == ClaimCandidates(store, queue_names, t, locked)
    IN IF c = {} THEN 0
       ELSE CHOOSE id \in c : \A o \in c \ {id} : Before(store, id, o)

\* (a SET clause that also moves scheduled_at)
ClaimSetReschedule(row, t) ==
    [row EXCEPT !.status = "running", !.attempts = @ + 1, !.updated_at = t,
                !.scheduled_at = t]

\* the SET clause of the claim statement
ClaimSet(row, t) ==
    [row EXCEPT !.status = "running", !.attempts = @ + 1, !.updated_at = t]

\* mark_job_completed
MarkJobCompleted(store, id, result_data, t) ==
    LET base == [status |-> "completed", updated_at |-> t]
        withResult == result_data # "absent" /\ Visible(store, id)
                        /\ Truthy(store[id].payload)
        obj_in == IF withResult
                  THEN [status |-> "completed", updated_at |-> t,
                        payload |-> [store[id].payload EXCEPT !.result = result_data]]
                  ELSE base
    IN RepoUpdate(store, id, obj_in, t)

\* (delay_minutes = 2 ** job.attempts)
BackoffDelayNoMinusOne(attempts) == 2 ^ (attempts + 1)

\* delay_minutes = 2 ** (job.attempts - 1), in ticks of half a minute
BackoffDelay(attempts) == 2 ^ attempts

\* (should_retry with <= in place of <)
ShouldRetryInclusive(retry, attempts, max_tries) == retry /\ attempts <= max_tries

\* should_retry = retry and job.attempts < job.max_tries
ShouldRetry(retry, attempts, max_tries) == retry /\ attempts < max_tries

\* mark_job_failed
MarkJobFailed(store, id, error_message, retry, t) ==
    IF ~Visible(store, id) THEN store
    ELSE LET job == store[id]
             should_retry == ShouldRetry(retry, job.attempts, job.max_tries)
             status == IF should_retry THEN "pending" ELSE "failed"
             entry == [attempt |-> job.attempts, error |-> error_message]
             payload == [job.payload EXCEPT !.errors = Append(@, entry)]
             sched == t + BackoffDelay(job.attempts)
             obj_in ==
                IF Truthy(job.payload)
                THEN IF should_retry
                     THEN [status |-> status, updated_at |-> t, payload |-> payload,
                           scheduled_at |-> sched]
                     ELSE [status |-> status, updated_at |-> t, payload |-> payload]
                ELSE IF should_retry
                     THEN [status |-> status, updated_at |-> t, scheduled_at |-> sched]
                     ELSE [status |-> status, updated_at |-> t]
         IN RepoUpdate(store, id, obj_in, t)

\* (a reset that also gives the job its attempts back)
ResetStaleJobsZero(store, stale_timeout_minutes, t) ==
    [id \in DOMAIN store |->
        IF store[id].status = "running"
        THEN [store[id] EXCEPT !.status = "pending", !.scheduled_at = t,
                               !.updated_at = t, !.attempts = 0]
        ELSE store[id]]

\* reset_stale_jobs: the bulk_update on status = running alone, then the second
\* UPDATE, which rewrites status = "pending" on pending rows older than the cutoff
\* (its only effect is the column's onupdate of updated_at)
ResetStaleJobs(store, stale_timeout_minutes, t) ==
    LET cutoff == t - 2 * stale_timeout_minutes
        first == [id \in DOMAIN store |->
                    IF store[id].status = "running"
                    THEN [store[id] EXCEPT !.status = "pending",
                                           !.scheduled_at = t, !.updated_at = t]
                    ELSE store[id]]
    IN [id \in DOMAIN first |->
            IF first[id].status = "pending" /\ first[id].updated_at < cutoff
            THEN [first[id] EXCEPT !.updated_at = t]
            ELSE first[id]]

\* (a retry that does not look at the status)
RetryFailedJobAnyStatus(store, id, reset_attempts, t) ==
    IF ~Visible(store, id) THEN store
    ELSE RepoUpdate(store, id,
            IF reset_attempts
            THEN [status |-> "pending", scheduled_at |-> t, attempts |-> 0]
            ELSE [status |-> "pending", scheduled_at |-> t], t)

\* retry_failed_job: whether it returns a job (None otherwise)
RetryFailedFound(store, id) == Visible(store, id) /\ store[id].status = "failed"

\* retry_failed_job
RetryFailedJob(store, id, reset_attempts, t) ==
    IF ~Visible(store, id) \/ store[id].status # "failed" THEN store
    ELSE RepoUpdate(store, id,
            IF reset_attempts
            THEN [status |-> "pending", scheduled_at |-> t, attempts |-> 0]
            ELSE [status |-> "pending", scheduled_at |-> t], t)

\* timedelta(days=1) in ticks of half a minute
TicksPerDay == 2880

\* (a SELECT on updated_at alone, whatever the status)
CleanupAnyStatus(store, older_than_days, t) ==
    LET cutoff == t - TicksPerDay * older_than_days
        jobs_to_delete == {id \in DOMAIN store : store[id].updated_at < cutoff}
    IN [id \in DOMAIN store \ jobs_to_delete |-> store[id]]

\* cleanup_completed_jobs: the table without the completed rows older than the cutoff
CleanupCompletedJobs(store, older_than_days, t) ==
    LET cutoff == t - TicksPerDay * older_than_days
        jobs_to_delete == {id \in DOMAIN store :
                             /\ store[id].status = "completed"
                             /\ store[id].updated_at < cutoff}
    IN [id \in DOMAIN store \ jobs_to_delete |-> store[id]]

\* ------------------------------------------------------------------ locks
\* the rows locked by a claim statement not yet committed
ClaimLocked == {claimTx[w].job : w \in {x \in Workers : claimTx[x] # NoTx}}

\* a producer transaction holds the lock of its row once it has flushed a write
LockedRows ==
    ClaimLocked \cup (IF producerTx.op \in {"update", "cancel"} THEN {producerTx.job} ELSE {})

\* --------------------------------------------------------------- history
\* claims: claim statements that returned the job; inPeriod: those since the job last
\* became pending; outcome: of its latest execution; manual: a manual retry or an
\* update came after that outcome; disturbed: a success, manual retry, update or
\* stale reset ever touched it; written: an outcome was ever written for it; op: the
\* operation that wrote the row last; cancel: the HTTP status of the last cancel request
\* answered for it (0: none yet); cancels: the cancel requests answered for it;
\* created: the response of the request that created it; given: the scheduled_at of
\* that request (-1: none)
NoHist == [claims |-> 0, inPeriod |-> 0, outcome |-> "none",
           manual |-> FALSE, disturbed |-> FALSE, written |-> FALSE, op |-> "enqueue",
           cancel |-> 0, cancels |-> 0, created |-> NoJobResponse, given |-> -1]

\* a write that leaves job id pending opens a new pending period when it was not pending
Period(h, old, new) ==
    IF old.status # "pending" /\ new.status = "pending" THEN [h EXCEPT !.inPeriod = 0] ELSE h

\* ------------------------------------------------------------------- Init
\* a row tombstoned before the processes start (is_deleted, models/base_model.py);
\* nothing in the code base sets the flag, the store can carry it all the same
Tombstone ==
    [NewJob("emails", [EmptyPayload EXCEPT !.data = 1], "default", -1, 1, 0)
        EXCEPT !.is_deleted = TRUE]

\* the workers and the producer start on an empty table or on one tombstoned row
Init ==
    /\ jobs \in {<<>>, <<Tombstone>>}
    /\ nextId = Len(jobs) + 1
    /\ now = 0
    /\ claimTx = [w \in Workers |-> NoTx]
    /\ producerTx = NoProducerTx
    /\ active = [w \in Workers |-> [s \in Slots |-> NoTask]]
    /\ current_poll_interval = [w \in Workers |-> poll_interval]
    /\ adminOps = 0
    /\ stats = [w \in Workers |-> NoStats]
    /\ should_shutdown = [w \in Workers |-> FALSE]
    /\ concurrency = [w \in Workers |-> max_concurrent_jobs]
    /\ loop = [w \in Workers |-> NoLoop]
    /\ hist = [id \in DOMAIN jobs |-> NoHist]

\* the clock advances
Tick ==
    /\ now < MaxTime
    /\ now' = now + 1
    /\ UNCHANGED <<concurrency, should_shutdown, loop, stats, jobs, nextId, claimTx, producerTx, active, current_poll_interval,
                   adminOps, hist>>

\* ------------------------------------------------------------ producer API
\* the requests a producer sends (JobCreate): scheduled_at -1 is "not given"
EnqueueInputs ==
    {[job_type |-> "emails", data |-> 1, queue_name |-> "default",
      scheduled_at |-> -1, max_tries |-> 3],
     [job_type |-> "emails", data |-> 0, queue_name |-> "default",
      scheduled_at |-> now + 1, max_tries |-> 1],
     [job_type |-> "emails", data |-> 1, queue_name |-> "mail",
      scheduled_at |-> -1, max_tries |-> 1],
     [job_type |-> "nope", data |-> 1, queue_name |-> "default",
      scheduled_at |-> -1, max_tries |-> 2],
     [job_type |-> "nope", data |-> 0, queue_name |-> "default",
      scheduled_at |-> -1, max_tries |-> 2]}

\* JobService.create_job: enqueue_job, commit
Enqueue ==
    /\ nextId <= MaxJobs
    /\ \E in \in {x \in EnqueueInputs : x.job_type \in JobTypes} :
         LET row == NewJob(in.job_type, [EmptyPayload EXCEPT !.data = in.data],
                           in.queue_name, in.scheduled_at, in.max_tries, now)
         IN /\ jobs' = [id \in DOMAIN jobs \cup {nextId} |->
                            IF id = nextId THEN row ELSE jobs[id]]
            /\ hist' = [id \in DOMAIN hist \cup {nextId} |->
                            IF id = nextId
                            THEN [NoHist EXCEPT !.created = JobResponse(nextId, row),
                                                !.given = in.scheduled_at]
                            ELSE hist[id]]
    /\ nextId' = nextId + 1
    /\ UNCHANGED <<concurrency, should_shutdown, loop, stats, now, claimTx, producerTx, active, current_poll_interval, adminOps>>

\* the fields a JobUpdate request sets (exclude_unset)
UpdateInputs ==
    {[max_tries |-> 1], [scheduled_at |-> now],
     [payload |-> [EmptyPayload EXCEPT !.data = 1]]}

\* JobService.update_job up to the flush of repo.update: the row is written and
\* locked, the transaction not yet committed
UpdateJobFlush ==
    /\ adminOps < MaxAdminOps
    /\ producerTx = NoProducerTx
    /\ \E id \in DOMAIN jobs, obj_in \in UpdateInputs :
         /\ Visible(jobs, id)
         /\ id \notin LockedRows
         /\ producerTx' = [op |-> "update", job |-> id,
                           row |-> RepoUpdate(jobs, id, obj_in, now)[id]]
    /\ adminOps' = adminOps + 1
    /\ UNCHANGED <<concurrency, should_shutdown, loop, stats, jobs, nextId, now, claimTx, active, current_poll_interval, hist>>

\* JobService.update_job: db.commit()
UpdateJobCommit ==
    /\ producerTx.op = "update"
    /\ jobs' = [jobs EXCEPT ![producerTx.job] = producerTx.row]
    /\ hist' = [hist EXCEPT ![producerTx.job].manual = TRUE,
                            ![producerTx.job].disturbed = TRUE,
                            ![producerTx.job].op = "update"]
    /\ producerTx' = NoProducerTx
    /\ UNCHANGED <<concurrency, should_shutdown, loop, stats, nextId, now, claimTx, active, current_poll_interval, adminOps>>

\* (a model class that has soft_delete())
RepoDeleteSoft(row) == TRUE

\* AsyncBaseRepository.delete: the model has no soft_delete, so it returns False
RepoDelete(row) == FALSE

\* JobService.cancel_job: the HTTP status it answers, from the job it reads first
CancelResponse(store, id) ==
    IF ~Visible(store, id) THEN 404
    ELSE IF store[id].status # "pending" THEN 400
    ELSE IF RepoDelete(store[id]) THEN 200
    ELSE 500

\* JobService.cancel_job when repo.get finds no job (404) or one that is not
\* pending (400): nothing is written
CancelJobReject ==
    /\ adminOps < MaxAdminOps
    /\ producerTx = NoProducerTx
    /\ \E id \in DOMAIN jobs :
         /\ CancelResponse(jobs, id) \in {400, 404}
         /\ hist' = [hist EXCEPT ![id].cancel = CancelResponse(jobs, id),
                                 ![id].cancels = @ + 1]
    /\ adminOps' = adminOps + 1
    /\ UNCHANGED <<concurrency, should_shutdown, loop, stats, jobs, nextId, now, claimTx, producerTx, active,
                   current_poll_interval>>

\* JobService.cancel_job: repo.get reads a pending job (a plain SELECT, no lock)
CancelJobRead ==
    /\ adminOps < MaxAdminOps
    /\ producerTx = NoProducerTx
    /\ \E id \in DOMAIN jobs :
         /\ CancelResponse(jobs, id) \notin {400, 404}
         /\ producerTx' = [op |-> "cancelling", job |-> id, seen |-> jobs[id],
                           row |-> jobs[id]]
    /\ adminOps' = adminOps + 1
    /\ UNCHANGED <<concurrency, should_shutdown, loop, stats, jobs, nextId, now, claimTx, active, current_poll_interval, hist>>

\* JobService.cancel_job: the flush of repo.update, UPDATE ... SET status = 'cancelled'
\* WHERE id = :id on the row as it is by now; it waits for a lock held by a claim
CancelJobFlush ==
    /\ producerTx.op = "cancelling"
    /\ Visible(jobs, producerTx.job)
    /\ producerTx.job \notin ClaimLocked
    /\ producerTx' = [op |-> "cancel", job |-> producerTx.job, seen |-> producerTx.seen,
                      row |-> RepoUpdate(jobs, producerTx.job,
                                         [status |-> "cancelled"], now)[producerTx.job]]
    /\ UNCHANGED <<concurrency, should_shutdown, loop, stats, jobs, nextId, now, claimTx, active, current_poll_interval,
                   adminOps, hist>>

\* JobService.cancel_job after the flush: repo.delete fails, HTTP 500, and the
\* session is rolled back (with a soft delete: the flag is set and all is committed)
CancelJobEnd ==
    /\ \/ producerTx.op = "cancel"
       \/ producerTx.op = "cancelling" /\ ~Visible(jobs, producerTx.job)
    /\ LET id == producerTx.job
           done == producerTx.op = "cancel" /\ RepoDelete(producerTx.row)
       IN /\ jobs' = IF done
                     THEN [jobs EXCEPT ![id] = [producerTx.row EXCEPT !.is_deleted = TRUE]]
                     ELSE jobs
          /\ hist' = [hist EXCEPT ![id].cancel = IF done THEN 200 ELSE 500,
                                  ![id].cancels = @ + 1,
                                  ![id].op = IF done THEN "cancel" ELSE @]
    /\ producerTx' = NoProducerTx
    /\ UNCHANGED <<concurrency, should_shutdown, loop, stats, nextId, now, claimTx, active, current_poll_interval, adminOps>>

\* JobService.retry_job: retry_failed_job, commit
RetryFailed ==
    /\ adminOps < MaxAdminOps
    /\ \E id \in DOMAIN jobs, reset_attempts \in BOOLEAN :
         /\ id \notin LockedRows
         /\ jobs' = RetryFailedJob(jobs, id, reset_attempts, now)
         /\ hist' = IF ~Visible(jobs, id) \/ jobs[id].status # "failed" THEN hist
                    ELSE [hist EXCEPT ![id] = [Period(@, jobs[id], jobs'[id])
                                EXCEPT !.manual = TRUE, !.disturbed = TRUE,
                                       !.op = "retry"]]
    /\ adminOps' = adminOps + 1
    /\ UNCHANGED <<concurrency, should_shutdown, loop, stats, nextId, now, claimTx, producerTx, active, current_poll_interval>>

\* JobService.reset_stale_jobs: reset_stale_jobs, commit
ResetStale ==
    /\ adminOps < MaxAdminOps
    /\ \E stale_timeout_minutes \in {0, 1} :
         /\ jobs' = ResetStaleJobs(jobs, stale_timeout_minutes, now)
         /\ \A id \in LockedRows : jobs'[id] = jobs[id]
         /\ hist' = [id \in DOMAIN hist |->
                        IF id \in DOMAIN jobs /\ jobs'[id].status # jobs[id].status
                        THEN [Period(hist[id], jobs[id], jobs'[id])
                                EXCEPT !.disturbed = TRUE, !.op = "reset"]
                        ELSE IF id \in DOMAIN jobs /\ jobs'[id] # jobs[id]
                        THEN [hist[id] EXCEPT !.op = "reset"]
                        ELSE hist[id]]
    /\ adminOps' = adminOps + 1
    /\ UNCHANGED <<concurrency, should_shutdown, loop, stats, nextId, now, claimTx, producerTx, active, current_poll_interval>>

\* JobService.cleanup_completed_jobs: cleanup_completed_jobs, commit; the DELETE of a
\* row waits for a lock held on it
Cleanup ==
    /\ adminOps < MaxAdminOps
    /\ \E older_than_days \in {0, 1} :
         /\ jobs' = CleanupCompletedJobs(jobs, older_than_days, now)
         /\ (DOMAIN jobs \ DOMAIN jobs') \cap LockedRows = {}
    /\ hist' = [id \in DOMAIN hist |->
                    IF id \in DOMAIN jobs \ DOMAIN jobs'
                    THEN [hist[id] EXCEPT !.op = "cleanup"]
                    ELSE hist[id]]
    /\ adminOps' = adminOps + 1
    /\ UNCHANGED <<concurrency, should_shutdown, loop, stats, nextId, now, claimTx, producerTx, active, current_poll_interval>>

\* (a loop that never cleans up its finished tasks)
ReapNothing(tasks) == tasks

\* ---------------------------------------------------------- worker runtime
\* _cleanup_completed_tasks
Reap(tasks) == [s \in Slots |-> IF tasks[s].pc = "done" THEN NoTask ELSE tasks[s]]

\* (slots counted as if no task were held)
available_slotsIgnoreActive(w, tasks) == concurrency[w]

\* _available_slots
available_slots(w, tasks) ==
    concurrency[w] - Cardinality({s \in Slots : tasks[s] # NoTask})

Min(a, b) == IF a <= b THEN a ELSE b

\* _apply_backoff without the min(..., max_poll_interval)
ApplyBackoffNoCap(cur) ==
    LET new == cur * backoff_factor
    IN [current_poll_interval |-> new, sleep |-> new]

\* _apply_backoff: the interval is first set to min(cur * factor, max) and the
\* sleep that follows reads the interval just set
ApplyBackoff(cur) ==
    LET new == Min(cur * backoff_factor, max_poll_interval)
    IN [current_poll_interval |-> new, sleep |-> new]

\* (a loop that backs off after every empty claim, tasks in flight or not)
EndOfIterationBackoffBusy(met, tasks, cur) ==
    CASE met = "job" -> [current_poll_interval |-> poll_interval, sleep |-> 0]
      [] met = "empty" -> ApplyBackoff(cur)
      [] met = "noslot" -> [current_poll_interval |-> cur, sleep |-> poll_interval]
      [] met = "error" -> [current_poll_interval |-> cur, sleep |-> poll_interval]

\* _processing_loop, the end of an iteration: the poll interval it leaves and the
\* time it sleeps. met is what the iteration met: "job" (the claim returned a
\* row), "empty" (it returned none), "noslot" (no claim made), "error" (the
\* except branch); tasks is active_jobs after the reaping
EndOfIteration(met, tasks, cur) ==
    CASE met = "job" -> [current_poll_interval |-> poll_interval, sleep |-> 0]
      [] met = "empty" ->
            IF \A s \in Slots : tasks[s] = NoTask
            THEN ApplyBackoff(cur)
            ELSE [current_poll_interval |-> cur, sleep |-> poll_interval]
      [] met = "noslot" -> [current_poll_interval |-> cur, sleep |-> poll_interval]
      [] met = "error" -> [current_poll_interval |-> cur, sleep |-> poll_interval]

\* _processing_loop, `while not self.should_shutdown`: the worker is inside an
\* iteration, or at the test with the flag clear
InLoop(w) == loop[w].pc = "iter" \/ (loop[w].pc = "top" /\ ~should_shutdown[w])

\* _processing_loop: one iteration up to a claim statement that returns a row;
\* the row is locked and rewritten inside the still open transaction
WorkerClaim(w) ==
    /\ InLoop(w)
    /\ claimTx[w] = NoTx
    /\ LET tasks == Reap(active[w])
           id == ClaimSelect(jobs, WorkerQueues(w), now, LockedRows)
       IN /\ available_slots(w, tasks) > 0
          /\ id # 0
          /\ claimTx' = [claimTx EXCEPT ![w] =
                           [job |-> id, at |-> now,
                            prev |-> [outcome |-> hist[id].outcome, op |-> hist[id].op]]]
          /\ active' = [active EXCEPT ![w] = tasks]
          /\ hist' = [hist EXCEPT ![id].claims = @ + 1, ![id].inPeriod = @ + 1,
                                  ![id].outcome = "running", ![id].op = "claim"]
    /\ loop' = [loop EXCEPT ![w].pc = "iter", ![w].caught = "none", ![w].polled = "none"]
    /\ UNCHANGED <<concurrency, should_shutdown, stats, jobs, nextId, now, producerTx, current_poll_interval, adminOps>>

\* _processing_loop: db.commit() of the claim, create_task, active_jobs.add and the
\* reset of the poll interval
WorkerCommit(w) ==
    /\ claimTx[w] # NoTx
    /\ LET id == claimTx[w].job
           slot == CHOOSE s \in Slots : active[w][s] = NoTask
       IN /\ jobs' = [jobs EXCEPT ![id] = ClaimSet(@, claimTx[w].at)]
          /\ active' = [active EXCEPT ![w][slot] = [job |-> id, pc |-> "start", handler |-> "none", store |-> "ok"]]
    /\ claimTx' = [claimTx EXCEPT ![w] = NoTx]
    /\ current_poll_interval' =
          [current_poll_interval EXCEPT
             ![w] = EndOfIteration("job", active'[w], @).current_poll_interval]
    /\ loop' = [loop EXCEPT ![w].pc = "top", ![w].caught = "none", ![w].polled = "none"]
    /\ UNCHANGED <<concurrency, should_shutdown, stats, nextId, now, producerTx, adminOps, hist>>

\* _processing_loop: one iteration whose claim statement returns no row; with no
\* task in flight _apply_backoff, otherwise sleep(poll_interval)
WorkerPollEmpty(w) ==
    /\ InLoop(w)
    /\ claimTx[w] = NoTx
    /\ LET tasks == Reap(active[w])
       IN /\ available_slots(w, tasks) > 0
          /\ ClaimSelect(jobs, WorkerQueues(w), now, LockedRows) = 0
          /\ active' = [active EXCEPT ![w] = tasks]
          /\ current_poll_interval' =
                [current_poll_interval EXCEPT
                   ![w] = EndOfIteration("empty", tasks, @).current_poll_interval]
    /\ loop' = [loop EXCEPT ![w].pc = "top", ![w].caught = "none",
                              ![w].polled = IF \A s \in Slots : active'[w][s] = NoTask
                                            THEN "none" ELSE "busy"]
    /\ UNCHANGED <<concurrency, should_shutdown, stats, jobs, nextId, now, claimTx, producerTx, adminOps, hist>>

\* _processing_loop: one iteration that finds no free slot: no claim statement,
\* sleep(poll_interval)
WorkerNoSlot(w) ==
    /\ InLoop(w)
    /\ claimTx[w] = NoTx
    /\ LET tasks == Reap(active[w])
       IN /\ ~(available_slots(w, tasks) > 0)
          /\ active' = [active EXCEPT ![w] = tasks]
          /\ current_poll_interval' =
                [current_poll_interval EXCEPT
                   ![w] = EndOfIteration("noslot", tasks, @).current_poll_interval]
    /\ loop' = [loop EXCEPT ![w].pc = "top", ![w].caught = "none", ![w].polled = "none"]
    /\ UNCHANGED <<concurrency, should_shutdown, stats, jobs, nextId, now, claimTx, producerTx,
                   adminOps, hist>>

\* the history of an outcome write on a job (none when the row is not visible)
Outcome(h, visible, old, new, outcome) ==
    IF ~visible THEN h
    ELSE [Period(h, old, new) EXCEPT !.outcome = outcome, !.manual = FALSE,
                                     !.disturbed = @ \/ outcome = "success",
                                     !.written = TRUE, !.op = "outcome"]

\* __process_job_async up to the handler lookup: the job is read; an unknown
\* job_type is failed for good (retry=False)
TaskStart(w, s) ==
    /\ active[w][s].pc = "start"
    /\ LET id == active[w][s].job
       IN IF ~Visible(jobs, id)
          THEN /\ active' = [active EXCEPT ![w][s].pc = "done"]
               /\ stats' = [stats EXCEPT ![w].jobs_processed = @ + 1]
               /\ UNCHANGED <<jobs, hist>>
          ELSE IF ~HasHandler(jobs[id].job_type)
          THEN /\ id \notin LockedRows
               /\ jobs' = MarkJobFailed(jobs, id, "Invalid job type", FALSE, now)
               /\ hist' = [hist EXCEPT ![id] = Outcome(@, Visible(jobs, id), jobs[id], jobs'[id], "failure")]
               /\ active' = [active EXCEPT ![w][s].pc = "done"]
               /\ stats' = [stats EXCEPT ![w].jobs_failed = @ + 1,
                                         ![w].jobs_processed = @ + 1]
          ELSE /\ active' = [active EXCEPT ![w][s].pc = "exec"]
               /\ UNCHANGED <<jobs, hist, stats>>
    /\ UNCHANGED <<concurrency, should_shutdown, loop, nextId, now, claimTx, producerTx, current_poll_interval, adminOps>>

\* __process_job_async: handler.execute returns; mark_job_completed, commit
TaskSucceed(w, s) ==
    /\ active[w][s].pc = "exec"
    /\ LET id == active[w][s].job
       IN /\ id \notin LockedRows
          /\ jobs' = MarkJobCompleted(jobs, id, "sent", now)
          /\ hist' = [hist EXCEPT ![id] = Outcome(@, Visible(jobs, id), jobs[id], jobs'[id], "success")]
    /\ active' = [active EXCEPT ![w][s].pc = "done", ![w][s].handler = "returned"]
    /\ stats' = [stats EXCEPT ![w].jobs_succeeded = @ + 1, ![w].jobs_processed = @ + 1]
    /\ UNCHANGED <<concurrency, should_shutdown, loop, nextId, now, claimTx, producerTx, current_poll_interval, adminOps>>

\* __process_job_async: handler.execute raises; mark_job_failed(retry=True), commit
TaskFail(w, s) ==
    /\ active[w][s].pc = "exec"
    /\ LET id == active[w][s].job
       IN /\ id \notin LockedRows
          /\ jobs' = MarkJobFailed(jobs, id, "boom", TRUE, now)
          /\ hist' = [hist EXCEPT ![id] = Outcome(@, Visible(jobs, id), jobs[id], jobs'[id], "failure")]
    /\ active' = [active EXCEPT ![w][s].pc = "done", ![w][s].handler = "raised"]
    /\ stats' = [stats EXCEPT ![w].jobs_failed = @ + 1, ![w].jobs_processed = @ + 1]
    /\ UNCHANGED <<concurrency, should_shutdown, loop, nextId, now, claimTx, producerTx, current_poll_interval, adminOps>>

Next ==
    \/ Tick
    \/ Enqueue
    \/ UpdateJobFlush
    \/ UpdateJobCommit
    \/ CancelJobReject
    \/ CancelJobRead
    \/ CancelJobFlush
    \/ CancelJobEnd
    \/ RetryFailed
    \/ ResetStale
    \/ Cleanup
    \/ \E w \in Workers : WorkerClaim(w)
    \/ \E w \in Workers : WorkerCommit(w)
    \/ \E w \in Workers : WorkerPollEmpty(w)
    \/ \E w \in Workers : WorkerNoSlot(w)
    \/ \E w \in Workers, s \in Slots : TaskStart(w, s)
    \/ \E w \in Workers, s \in Slots : TaskSucceed(w, s)
    \/ \E w \in Workers, s \in Slots : TaskFail(w, s)

Spec == Init /\ [][Next]_vars

\* ------------------------------------------------------- the retry policy
\* A job in the middle of its life: claimed `a` times, its attempts 1..a-1 failed
\* and were retried, attempt a is being executed by w1.
PriorErrors(a) == [i \in 1..(a - 1) |-> [attempt |-> i, error |-> "boom"]]

MidLifeJob(a, m, data) ==
    [NewJob("emails", [data |-> data,
                        errors |-> IF data # 0 THEN PriorErrors(a) ELSE <<>>,
                        result |-> "absent"], "default", -1, m, 0)
        EXCEPT !.status = "running", !.attempts = a]

InitRetry ==
    /\ \E a \in 1..4, m \in 1..5, data \in {0, 1} :
         /\ a <= m
         /\ jobs = <<MidLifeJob(a, m, data)>>
         /\ hist = <<[NoHist EXCEPT !.claims = a, !.inPeriod = 1, !.outcome = "running",
                                    !.written = a > 1, !.op = "claim"]>>
    /\ nextId = 2
    /\ now = 0
    /\ claimTx = [w \in Workers |-> NoTx]
    /\ producerTx = NoProducerTx
    /\ active = [w \in Workers |-> [s \in Slots |->
                    IF w = "w1" /\ s = 1 THEN [job |-> 1, pc |-> "exec", handler |-> "none", store |-> "ok"] ELSE NoTask]]
    /\ current_poll_interval = [w \in Workers |-> poll_interval]
    /\ adminOps = 0
    /\ stats = [w \in Workers |-> NoStats]
    /\ should_shutdown = [w \in Workers |-> FALSE]
    /\ concurrency = [w \in Workers |-> max_concurrent_jobs]
    /\ loop = [w \in Workers |-> NoLoop]

\* the clock, far enough for the retry delays to elapse
TickRetry ==
    /\ now < MaxRetryTime
    /\ now' = now + 1
    /\ UNCHANGED <<concurrency, should_shutdown, loop, stats, jobs, nextId, claimTx, producerTx, active, current_poll_interval,
                   adminOps, hist>>

NextRetry ==
    \/ TickRetry
    \/ \E w \in Workers : WorkerClaim(w)
    \/ \E w \in Workers : WorkerCommit(w)
    \/ \E w \in Workers : WorkerPollEmpty(w)
    \/ \E w \in Workers : WorkerNoSlot(w)
    \/ \E w \in Workers, s \in Slots : TaskStart(w, s)
    \/ \E w \in Workers, s \in Slots : TaskSucceed(w, s)
    \/ \E w \in Workers, s \in Slots : TaskFail(w, s)

SpecRetry == InitRetry /\ [][NextRetry]_vars

\* ------------------------------------------------------------------ claims
\* worker w holds an in-flight execution of job id: a task spawned for it that has
\* not written its outcome yet
InFlight(w, id) ==
    \E s \in Slots : active[w][s].job = id /\ active[w][s].pc \in {"start", "exec"}

\* this step is worker w's claim statement returning a row
ClaimStep(w) == claimTx[w] = NoTx /\ claimTx'[w] # NoTx

\* this step is the commit of worker w's claim
ClaimCommitStep(w) == claimTx[w] # NoTx /\ claimTx'[w] = NoTx

\* C1: no job is ever in flight at two different workers.
C1_OneWorkerPerJob ==
    \A id \in DOMAIN jobs : \A w1 \in Workers, w2 \in Workers :
        w1 # w2 => ~(InFlight(w1, id) /\ InFlight(w2, id))

\* no operation but enqueue and claim has acted so far
RaceOnly ==
    /\ adminOps = 0
    /\ \A id \in DOMAIN hist : ~hist[id].written

\* C2: a job is returned by at most one claim statement per pending period, and
\* while only claims run, every job has been claimed exactly once if it is running
\* or held by an open claim and never otherwise (K claimed jobs, K claims).
C2_ClaimAtomic ==
    /\ \A id \in DOMAIN hist : hist[id].inPeriod <= 1
    /\ RaceOnly =>
         \A id \in DOMAIN jobs :
            hist[id].claims =
                IF jobs[id].status = "running" \/ \E w \in Workers : claimTx[w].job = id
                THEN 1 ELSE 0

\* C2 witness: two claims in progress at once, on different rows
C2_Witness ==
    /\ claimTx["w1"] # NoTx
    /\ claimTx["w2"] # NoTx
    /\ RaceOnly

\* C3: 0 <= attempts <= max_tries for every job.
C3_AttemptsBounded ==
    \A id \in DOMAIN jobs :
        0 <= jobs[id].attempts /\ jobs[id].attempts <= jobs[id].max_tries

AllowedTransitions ==
    {<<"pending", "running">>, <<"running", "completed">>, <<"running", "failed">>,
     <<"running", "pending">>, <<"failed", "pending">>, <<"pending", "cancelled">>}

\* C4: every change of a job's status is one of the allowed transitions.
C4_Transitions ==
    [][\A id \in DOMAIN jobs :
          (id \in DOMAIN jobs' /\ jobs'[id].status # jobs[id].status)
             => <<jobs[id].status, jobs'[id].status>> \in AllowedTransitions]_vars

\* C5: the row a claim statement returns was, in the committed table at that
\* moment, pending, in a queue the worker serves, due and not soft-deleted.
C5_ClaimOnlyEligible ==
    [][\A w \in Workers :
          ClaimStep(w) =>
             LET row == jobs[claimTx'[w].job]
             IN /\ row.status = "pending"
                /\ row.queue_name \in WorkerQueues(w)
                /\ row.scheduled_at <= now
                /\ ~row.is_deleted]_vars

\* C5 witness: w1 holds a claimed row while an older pending row was passed over
\* because it is scheduled in the future, tombstoned or in a queue w1 does not serve
C5_Witness ==
    /\ claimTx["w1"] # NoTx
    /\ \E id \in DOMAIN jobs :
         /\ id < claimTx["w1"].job
         /\ jobs[id].status = "pending"
         /\ \/ jobs[id].scheduled_at > now
            \/ jobs[id].is_deleted
            \/ jobs[id].queue_name = "mail"

\* row a comes before row b in (scheduled_at, id) order
Earlier(a, b) ==
    \/ jobs[a].scheduled_at < jobs[b].scheduled_at
    \/ jobs[a].scheduled_at = jobs[b].scheduled_at /\ a <= b

\* the rows worker w may claim in the committed table
Claimable(w) ==
    {id \in DOMAIN jobs :
        /\ jobs[id].status = "pending"
        /\ jobs[id].queue_name \in WorkerQueues(w)
        /\ jobs[id].scheduled_at <= now
        /\ ~jobs[id].is_deleted}

\* C6 as claimed: with no other claim in progress, a claim statement returns the
\* claimable row that is smallest in (scheduled_at, id).
C6_Original ==
    [][\A w \in Workers :
          (ClaimStep(w) /\ \A o \in Workers : claimTx[o] = NoTx)
             => \A id \in Claimable(w) : Earlier(claimTx'[w].job, id)]_vars

\* C6: a claim statement returns the row that is smallest in (scheduled_at, id)
\* among the claimable rows no other transaction has locked; so with no claim,
\* update or cancel in progress it returns the smallest claimable row.
C6_ClaimOrder ==
    [][\A w \in Workers :
          ClaimStep(w) =>
             /\ \A id \in Claimable(w) \ LockedRows : Earlier(claimTx'[w].job, id)
             /\ (producerTx = NoProducerTx /\ \A o \in Workers : claimTx[o] = NoTx)
                   => \A id \in Claimable(w) : Earlier(claimTx'[w].job, id)]_vars

\* C6 witness: w2 has claimed row 2 ahead of row 1, both pending and served by it,
\* because row 2 is scheduled earlier
C6_Witness ==
    /\ claimTx["w2"] # NoTx
    /\ claimTx["w2"].job = 2
    /\ producerTx = NoProducerTx
    /\ claimTx["w1"] = NoTx
    /\ 1 \in DOMAIN jobs
    /\ jobs[1].status = "pending"
    /\ ~jobs[1].is_deleted
    /\ jobs[1].scheduled_at <= now
    /\ jobs[2].scheduled_at < jobs[1].scheduled_at

\* C7: the commit of a claim changes one row, and of it only status (running),
\* attempts (+1) and updated_at (the time of the statement); the statement itself
\* and a poll that finds no row leave the committed table as it was.
C7_ClaimFrame ==
    [][\A w \in Workers :
          /\ ClaimCommitStep(w) =>
                LET id == claimTx[w].job
                IN /\ DOMAIN jobs' = DOMAIN jobs
                   /\ \A o \in DOMAIN jobs \ {id} : jobs'[o] = jobs[o]
                   /\ jobs'[id].status = "running"
                   /\ jobs'[id].attempts = jobs[id].attempts + 1
                   /\ jobs'[id].updated_at = claimTx[w].at
                   /\ \A f \in DOMAIN jobs[id] \ {"status", "attempts", "updated_at"} :
                         jobs'[id][f] = jobs[id][f]
          /\ ClaimStep(w) => jobs' = jobs
          /\ current_poll_interval'[w] > current_poll_interval[w] => jobs' = jobs
          /\ (claimTx' = claimTx /\ \E s \in Slots :
                    active[w][s].pc = "done" /\ active'[w][s] = NoTask)
                => jobs' = jobs]_vars

\* C7 witness: a claim has just been committed beside another, untouched pending row
C7_Witness ==
    \E w \in Workers :
        /\ active[w][1].pc = "start"
        /\ jobs[active[w][1].job].status = "running"
        /\ jobs[active[w][1].job].attempts = 1
        /\ \E o \in DOMAIN jobs : o # active[w][1].job /\ jobs[o].status = "pending"
                                     /\ ~jobs[o].is_deleted

\* C8: a job with a handler that has only ever failed, and that no manual retry,
\* update or stale reset touched, is claimed at most max_tries times, and once it is
\* failed it has been claimed max_tries times and has max_tries error entries.
C8_AlwaysFailing ==
    \A id \in DOMAIN jobs :
        (jobs[id].job_type = "emails" /\ ~hist[id].disturbed) =>
            /\ hist[id].claims <= jobs[id].max_tries
            /\ jobs[id].status = "failed" =>
                  /\ hist[id].claims = jobs[id].max_tries
                  /\ Len(jobs[id].payload.errors) = jobs[id].max_tries

\* 2^(attempts - 1) minutes in ticks of half a minute: 1, 2, 4, 8 minutes after
\* attempts 1, 2, 3, 4
RetryDelay(attempts) ==
    CASE attempts = 0 -> 1
      [] attempts = 1 -> 2 * 1
      [] attempts = 2 -> 2 * 2
      [] attempts = 3 -> 2 * 4
      [] attempts = 4 -> 2 * 8
      [] OTHER -> 2 * (2 ^ (attempts - 1))

\* this step is a task's mark_failed(retry=True) on the job of slot s of worker w
FailStep(w, s) ==
    /\ active[w][s].pc = "exec"
    /\ active'[w][s].pc = "done"
    /\ hist'[active[w][s].job].outcome = "failure"

\* C9: mark_failed(retry=true) on a job with attempts < max_tries leaves it pending,
\* scheduled 2^(attempts-1) minutes from now, attempts unchanged; and a claim never
\* returns a row before its scheduled_at.
C9_RetryBackoff ==
    [][/\ \A w \in Workers, s \in Slots :
            (FailStep(w, s)
                /\ jobs[active[w][s].job].attempts < jobs[active[w][s].job].max_tries)
              => LET id == active[w][s].job
                 IN /\ jobs'[id].status = "pending"
                    /\ jobs'[id].scheduled_at = now + RetryDelay(jobs[id].attempts)
                    /\ jobs'[id].attempts = jobs[id].attempts
       /\ \A w \in Workers :
            ClaimStep(w) => jobs[claimTx'[w].job].scheduled_at <= now]_vars

\* C9 witness: the third attempt of a job has failed and it waits 4 minutes
C9_Witness ==
    \E id \in DOMAIN jobs :
        /\ jobs[id].status = "pending"
        /\ jobs[id].attempts = 3
        /\ hist[id].outcome = "failure"
        /\ jobs[id].scheduled_at = now + 8

\* C10 as claimed: a job whose latest execution failed and whose attempts equal
\* max_tries has status failed.
C10_Original ==
    \A id \in DOMAIN jobs :
        (hist[id].outcome = "failure" /\ jobs[id].attempts = jobs[id].max_tries)
            => jobs[id].status = "failed"

\* the first part of C10, until a manual retry or an update touches the job
ExhaustedIsFailed ==
    \A id \in DOMAIN jobs :
        (hist[id].outcome = "failure" /\ ~hist[id].manual
            /\ jobs[id].attempts = jobs[id].max_tries)
          => jobs[id].status = "failed"

\* this step is a task's mark_failed(retry=False) on the job of slot s of worker w
PermanentFailStep(w, s) ==
    /\ active[w][s].pc = "start"
    /\ active'[w][s].pc = "done"
    /\ hist'[active[w][s].job].outcome = "failure"

\* C10: a job whose latest execution failed with attempts = max_tries is failed as
\* long as no manual retry or update has touched it since; only a manual retry puts
\* such a job back to pending; mark_failed(retry=false) yields failed and leaves
\* scheduled_at alone.
C10_ExhaustedStaysFailed ==
    [][/\ ExhaustedIsFailed'
       /\ \A id \in DOMAIN jobs :
            (/\ hist[id].outcome = "failure"
             /\ jobs[id].attempts = jobs[id].max_tries
             /\ jobs[id].status = "failed"
             /\ id \in DOMAIN jobs'
             /\ jobs'[id].status = "pending")
               => hist'[id].op = "retry"
       /\ \A w \in Workers, s \in Slots :
            PermanentFailStep(w, s) =>
                LET id == active[w][s].job
                IN /\ jobs'[id].status = "failed"
                   /\ jobs'[id].scheduled_at = jobs[id].scheduled_at]_vars

\* C10 witness: a job has used up its tries, its last execution failed with
\* retry on, and another was failed for good at its first attempt of two
C10_Witness ==
    /\ \E id \in DOMAIN jobs :
         /\ jobs[id].job_type = "emails"
         /\ jobs[id].status = "failed"
         /\ jobs[id].attempts = jobs[id].max_tries
         /\ hist[id].outcome = "failure"
         /\ ~hist[id].manual
    /\ \E id \in DOMAIN jobs :
         /\ jobs[id].job_type = "nope"
         /\ jobs[id].status = "failed"
         /\ jobs[id].attempts = 1
         /\ jobs[id].max_tries = 2

\* C11: when a worker finds no handler for the job type of a job it claimed, the job
\* is failed for good: status failed whatever max_tries, scheduled_at left alone (no
\* retry scheduled), the worker's jobs_failed incremented, and, for a job nothing else
\* disturbed, this was its only attempt and its first error entry is "Invalid job type".
C11_UnknownJobType ==
    [][\A w \in Workers, s \in Slots :
          PermanentFailStep(w, s) =>
             LET id == active[w][s].job
             IN /\ jobs'[id].status = "failed"
                /\ jobs'[id].scheduled_at = jobs[id].scheduled_at
                /\ stats'[w].jobs_failed = stats[w].jobs_failed + 1
                /\ ~hist[id].disturbed =>
                      /\ hist[id].claims = 1
                      /\ jobs'[id].attempts = 1
                      /\ Len(jobs'[id].payload.errors) >= 1
                      /\ jobs'[id].payload.errors[1].error = "Invalid job type"]_vars

\* this step answers a cancel request for job id
CancelAnswered(id) == hist'[id].cancels = hist[id].cancels + 1

\* the job a cancel request for id read (repo.get), when it found one
CancelFound(id) ==
    IF producerTx.op \in {"cancelling", "cancel"} THEN TRUE ELSE Visible(jobs, id)

\* the status that request read
CancelSeen(id) ==
    IF producerTx.op \in {"cancelling", "cancel"} THEN producerTx.seen.status
    ELSE jobs[id].status

\* C12: a cancel request for a job succeeds (200) exactly when the status it read is
\* pending, and a successful cancel leaves the job cancelled and is_deleted.
C12_CancelIffPending ==
    [][\A id \in DOMAIN hist :
          (CancelAnswered(id) /\ CancelFound(id)) =>
             /\ hist'[id].cancel = 200 <=> CancelSeen(id) = "pending"
             /\ hist'[id].cancel = 200 =>
                   jobs'[id].status = "cancelled" /\ jobs'[id].is_deleted]_vars

\* C13: a cancel request for a job that is not pending is answered 400 and leaves the
\* table as it was; and once a cancel of a job has been answered, another cancel of it
\* is answered 400.
C13_CancelNotPending ==
    [][\A id \in DOMAIN hist :
          (CancelAnswered(id) /\ CancelFound(id)) =>
             /\ CancelSeen(id) # "pending" => hist'[id].cancel = 400 /\ jobs' = jobs
             /\ CancelResponse(jobs', id) = 400]_vars

Stale(store, id, stale_timeout_minutes, t) ==
    /\ store[id].status = "running"
    /\ store[id].updated_at < t - 2 * stale_timeout_minutes

\* C15: for every timeout, a stale reset run now moves to pending exactly the jobs
\* that are running with updated_at before now - timeout; every other job keeps its
\* status.
C15_ResetStaleExact ==
    \A stale_timeout_minutes \in {0, 1} :
       LET after == ResetStaleJobs(jobs, stale_timeout_minutes, now)
       IN \A id \in DOMAIN jobs :
             IF Stale(jobs, id, stale_timeout_minutes, now)
             THEN after[id].status = "pending"
             ELSE after[id].status = jobs[id].status

\* this step is a stale reset that moved job id
ResetStep(id) ==
    /\ id \in DOMAIN jobs
    /\ hist'[id].op = "reset"
    /\ jobs'[id].status # jobs[id].status

\* C16: a stale reset never changes attempts of any job, and a job left running by
\* a worker that is gone, once stale, is pending after the reset and can be claimed
\* at once by every worker that serves its queue.
C16_ResetStaleFrame ==
    [][/\ \A stale_timeout_minutes \in {0, 1} :
             LET after == ResetStaleJobs(jobs, stale_timeout_minutes, now)
             IN \A id \in DOMAIN jobs :
                   /\ after[id].attempts = jobs[id].attempts
                   /\ (Stale(jobs, id, stale_timeout_minutes, now) /\ Visible(jobs, id)) =>
                         /\ after[id].status = "pending"
                         /\ Eligible(after[id], {jobs[id].queue_name}, now)
       /\ \A id \in DOMAIN hist :
             ResetStep(id) =>
                /\ jobs'[id].attempts = jobs[id].attempts
                /\ jobs'[id].status = "pending"
                /\ Visible(jobs, id) => Eligible(jobs'[id], {jobs[id].queue_name}, now)]_vars

\* C16 witness: a job claimed, reset by the sweep with no outcome ever written for it,
\* and claimed again, its attempts counting both claims
C16_Witness ==
    \E id \in DOMAIN jobs :
        /\ hist[id].claims = 2
        /\ ~hist[id].written
        /\ hist[id].disturbed
        /\ jobs[id].status = "running"
        /\ jobs[id].attempts = 2

\* C17: a row leaves the table only in a cleanup, and a cleanup removes exactly the
\* completed rows with updated_at before now - age (age in days), leaving every
\* other row as it was.
C17_CleanupOnly ==
    [][/\ \A older_than_days \in {0, 1} :
             LET after == CleanupCompletedJobs(jobs, older_than_days, now)
                 old == {id \in DOMAIN jobs :
                            /\ jobs[id].status = "completed"
                            /\ jobs[id].updated_at < now - TicksPerDay * older_than_days}
             IN /\ DOMAIN after = DOMAIN jobs \ old
                /\ \A id \in DOMAIN after : after[id] = jobs[id]
       /\ DOMAIN jobs \subseteq DOMAIN jobs' \/
             /\ adminOps' = adminOps + 1
             /\ \A id \in DOMAIN jobs \ DOMAIN jobs' :
                   jobs[id].status = "completed" /\ hist'[id].op = "cleanup"
             /\ \E older_than_days \in {0, 1} :
                   DOMAIN jobs \ DOMAIN jobs' =
                      {id \in DOMAIN jobs :
                          /\ jobs[id].status = "completed"
                          /\ jobs[id].updated_at < now - TicksPerDay * older_than_days}
             /\ \A id \in DOMAIN jobs' : jobs'[id] = jobs[id]]_vars

\* C17 witness: a cleanup has removed a row and kept another completed one, which
\* was not old enough
C17_Witness ==
    /\ \E id \in 1..(nextId - 1) : id \notin DOMAIN jobs /\ hist[id].op = "cleanup"
    /\ \E id \in DOMAIN jobs : jobs[id].status = "completed"

\* this step is a manual retry that wrote job id
RetryStep(id) ==
    /\ id \in DOMAIN jobs
    /\ hist'[id].op = "retry"
    /\ jobs'[id] # jobs[id]

\* C18: for every id (of a job or of none) and either value of reset_attempts,
\* retry_failed_job on a visible failed job returns it with status pending, attempts
\* 0 when reset_attempts and as before otherwise, no other row touched; on any other
\* id it returns no job and leaves the table as it was.
C18_RetryOnlyFailed ==
    [][/\ \A id \in 1..(MaxJobs + 1), reset_attempts \in BOOLEAN :
             LET after == RetryFailedJob(jobs, id, reset_attempts, now)
             IN IF id \in DOMAIN jobs /\ ~jobs[id].is_deleted /\ jobs[id].status = "failed"
                THEN /\ RetryFailedFound(jobs, id)
                     /\ after[id].status = "pending"
                     /\ after[id].attempts = IF reset_attempts THEN 0 ELSE jobs[id].attempts
                     /\ after[id].payload = jobs[id].payload
                     /\ after[id].max_tries = jobs[id].max_tries
                     /\ \A o \in DOMAIN jobs \ {id} : after[o] = jobs[o]
                ELSE /\ ~RetryFailedFound(jobs, id)
                     /\ after = jobs
       /\ \A id \in DOMAIN hist :
             RetryStep(id) =>
                /\ jobs[id].status = "failed"
                /\ jobs'[id].status = "pending"
                /\ jobs'[id].attempts \in {0, jobs[id].attempts}
                /\ \A o \in DOMAIN jobs \ {id} : jobs'[o] = jobs[o]]_vars

\* C18 witness: a job that was claimed and failed is pending again by a manual retry
\* that reset its attempts
C18_Witness ==
    \E id \in DOMAIN jobs :
        /\ hist[id].op = "retry"
        /\ hist[id].claims >= 1
        /\ jobs[id].status = "pending"
        /\ jobs[id].attempts = 0

\* this step is worker w's task in slot s writing the success of its job
CompletedStep(w, s) ==
    /\ active[w][s].pc = "exec"
    /\ active'[w][s].pc = "done"
    /\ stats'[w].jobs_succeeded = stats[w].jobs_succeeded + 1
    /\ Visible(jobs, active[w][s].job)

\* C19: after mark_job_completed for a job it found, the job is completed, its
\* payload.result is the value the handler returned and the rest of the payload is
\* as it was.
C19_CompletedResult ==
    [][\A w \in Workers, s \in Slots :
          CompletedStep(w, s) =>
             LET id == active[w][s].job
             IN /\ jobs'[id].status = "completed"
                /\ jobs'[id].payload.result = "sent"
                /\ jobs'[id].payload.data = jobs[id].payload.data
                /\ jobs'[id].payload.errors = jobs[id].payload.errors]_vars

\* this step is worker w's task in slot s writing the failure of its job
FailedStep(w, s) ==
    /\ active[w][s].pc \in {"start", "exec"}
    /\ active'[w][s].pc = "done"
    /\ stats'[w].jobs_failed = stats[w].jobs_failed + 1
    /\ Visible(jobs, active[w][s].job)

\* C20: every failure written by mark_job_failed, retried or not, appends one entry
\* to payload.errors, its attempt the attempts of the job, and leaves the earlier
\* entries as they were.
C20_ErrorAppended ==
    [][\A w \in Workers, s \in Slots :
          FailedStep(w, s) =>
             LET id == active[w][s].job
                 before == jobs[id].payload.errors
                 after == jobs'[id].payload.errors
             IN /\ Len(after) = Len(before) + 1
                /\ \A i \in 1..Len(before) : after[i] = before[i]
                /\ after[Len(after)].attempt = jobs[id].attempts
                /\ after[Len(after)].error \in {"boom", "Invalid job type"}]_vars

\* the attributes of two responses are equal, updated_at aside
SameAttributes(a, b) ==
    /\ DOMAIN a = DOMAIN b
    /\ \A f \in DOMAIN a \ {"updated_at"} : a[f] = b[f]

LongName == "long"

\* enqueue_job, create: the flush of the INSERT raises for such a row
InsertFails(in) == in.queue_name = LongName

\* the bulk requests a producer sends (BulkJobCreate)
BulkInputs ==
    LET a == [job_type |-> "emails", data |-> 1, queue_name |-> "default",
              scheduled_at |-> -1, max_tries |-> 3]
        b == [job_type |-> "emails", data |-> 0, queue_name |-> "mail",
              scheduled_at |-> -1, max_tries |-> 1]
        bad == [job_type |-> "emails", data |-> 1, queue_name |-> LongName,
                scheduled_at |-> -1, max_tries |-> 1]
    IN {<<a, b>>, <<b>>, <<a, bad>>, <<bad>>}

\* JobService.create_jobs_bulk: the request arrives, a transaction is opened
BulkBegin ==
    /\ producerTx = NoProducerTx
    /\ \E req \in BulkInputs :
         /\ nextId + Cardinality({i \in 1..Len(req) :
                                     \A j \in 1..i : ~InsertFails(req[j])}) - 1 <= MaxJobs
         /\ producerTx' = [op |-> "bulk", job |-> 0, todo |-> req, rows |-> <<>>,
                           given |-> <<>>]
    /\ UNCHANGED <<concurrency, should_shutdown, loop, stats, jobs, nextId, now, claimTx, active, current_poll_interval,
                   adminOps, hist>>

\* JobService.create_jobs_bulk: one enqueue_job of the loop; the row is flushed,
\* it has its id, and it is not committed
BulkInsert ==
    /\ producerTx.op = "bulk"
    /\ producerTx.todo # <<>>
    /\ ~InsertFails(Head(producerTx.todo))
    /\ LET in == Head(producerTx.todo)
           row == NewJob(in.job_type, [EmptyPayload EXCEPT !.data = in.data],
                         in.queue_name, in.scheduled_at, in.max_tries, now)
       IN producerTx' =
             [producerTx EXCEPT
                !.todo = Tail(@),
                !.rows = [id \in DOMAIN @ \cup {nextId} |->
                             IF id = nextId THEN row ELSE @[id]],
                !.given = [id \in DOMAIN @ \cup {nextId} |->
                              IF id = nextId THEN in.scheduled_at ELSE @[id]]]
    /\ nextId' = nextId + 1
    /\ UNCHANGED <<concurrency, should_shutdown, loop, stats, jobs, now, claimTx, active, current_poll_interval, adminOps, hist>>

\* (a failure that keeps the rows flushed before it)
BulkFailPartial ==
    /\ producerTx.op = "bulk"
    /\ producerTx.todo # <<>>
    /\ InsertFails(Head(producerTx.todo))
    /\ jobs' = [id \in DOMAIN jobs \cup DOMAIN producerTx.rows |->
                   IF id \in DOMAIN jobs THEN jobs[id] ELSE producerTx.rows[id]]
    /\ hist' = [id \in DOMAIN hist \cup DOMAIN producerTx.rows |->
                   IF id \in DOMAIN hist THEN hist[id] ELSE NoHist]
    /\ producerTx' = NoProducerTx
    /\ UNCHANGED <<concurrency, should_shutdown, loop, stats, nextId, now, claimTx, active, current_poll_interval, adminOps>>

\* JobService.create_jobs_bulk: an enqueue_job of the loop raises; rollback, HTTP 500
BulkFail ==
    /\ producerTx.op = "bulk"
    /\ producerTx.todo # <<>>
    /\ InsertFails(Head(producerTx.todo))
    /\ producerTx' = NoProducerTx
    /\ UNCHANGED <<concurrency, should_shutdown, loop, stats, jobs, nextId, now, claimTx, active, current_poll_interval,
                   adminOps, hist>>

\* JobService.create_jobs_bulk: the loop is over, db.commit()
BulkCommit ==
    /\ producerTx.op = "bulk"
    /\ producerTx.todo = <<>>
    /\ jobs' = [id \in DOMAIN jobs \cup DOMAIN producerTx.rows |->
                   IF id \in DOMAIN jobs THEN jobs[id] ELSE producerTx.rows[id]]
    /\ hist' = [id \in DOMAIN hist \cup DOMAIN producerTx.rows |->
                   IF id \in DOMAIN hist THEN hist[id]
                   ELSE [NoHist EXCEPT
                            !.created = JobResponse(id, producerTx.rows[id]),
                            !.given = producerTx.given[id]]]
    /\ producerTx' = NoProducerTx
    /\ UNCHANGED <<concurrency, should_shutdown, loop, stats, nextId, now, claimTx, active, current_poll_interval, adminOps>>

NextBulk ==
    \/ Tick
    \/ BulkBegin
    \/ BulkInsert
    \/ BulkFail
    \/ BulkCommit
    \/ \E w \in Workers : WorkerClaim(w)
    \/ \E w \in Workers : WorkerCommit(w)
    \/ \E w \in Workers : WorkerPollEmpty(w)
    \/ \E w \in Workers : WorkerNoSlot(w)
    \/ \E w \in Workers, s \in Slots : TaskStart(w, s)
    \/ \E w \in Workers, s \in Slots : TaskSucceed(w, s)
    \/ \E w \in Workers, s \in Slots : TaskFail(w, s)

SpecBulk == Init /\ [][NextBulk]_vars

\* this step ends a bulk request in failure
BulkFailStep ==
    producerTx.op = "bulk" /\ producerTx.todo # <<>> /\ producerTx' = NoProducerTx

\* this step ends a bulk request in success
BulkCommitStep ==
    producerTx.op = "bulk" /\ producerTx.todo = <<>> /\ producerTx' = NoProducerTx

\* C22: a bulk request whose insert fails leaves the table as it was, and none of its
\* rows is ever in the table or returned by a claim; a bulk request that succeeds
\* adds every one of its rows, pending with attempts 0, and touches no other row; as
\* long as the request is open none of its rows can be claimed.
C22_BulkAllOrNothing ==
    [][/\ BulkFailStep =>
             /\ jobs' = jobs
             /\ \A id \in DOMAIN producerTx.rows : id \notin DOMAIN jobs'
       /\ BulkCommitStep =>
             /\ DOMAIN jobs' = DOMAIN jobs \cup DOMAIN producerTx.rows
             /\ \A id \in DOMAIN producerTx.rows :
                   /\ id \notin DOMAIN jobs
                   /\ jobs'[id].status = "pending"
                   /\ jobs'[id].attempts = 0
                   /\ GetJob(jobs', id) = hist'[id].created
             /\ \A id \in DOMAIN jobs : jobs'[id] = jobs[id]
       /\ producerTx'.op = "bulk" =>
             \A id \in DOMAIN producerTx'.rows :
                /\ id \notin DOMAIN jobs'
                /\ \A w \in Workers : claimTx'[w].job # id
       /\ \A w \in Workers : ClaimStep(w) => claimTx'[w].job \in DOMAIN jobs
       /\ DOMAIN jobs' \subseteq DOMAIN hist']_vars

\* C22 witness: a bulk request has failed on its second job after its first was
\* flushed: the id of the first is used up and no row has it
C22_Witness ==
    /\ producerTx = NoProducerTx
    /\ \E id \in 1..(nextId - 1) : id \notin DOMAIN hist /\ id \notin DOMAIN jobs

\* ------------------------------------------------------------- update_job
\* the bodies of PATCH requests: those of UpdateInputs and two that name status
UpdateBodies ==
    UpdateInputs \cup {[status |-> "completed", max_tries |-> 1],
                       [status |-> "cancelled"]}

\* JobUpdate, model_dump(exclude_unset=True): the fields of the body the schema
\* declares; a field it does not declare is dropped
ModelDump(body) ==
    [f \in DOMAIN body \cap {"payload", "scheduled_at", "max_tries"} |-> body[f]]

\* JobService.update_job: the HTTP status it answers
UpdateJobResponse(store, id, body) ==
    IF "status" \in DOMAIN ModelDump(body) THEN 400
    ELSE IF ~Visible(store, id) THEN 404
    ELSE 200

\* JobService.update_job: the table after the request
UpdateJob(store, id, body, t) ==
    IF UpdateJobResponse(store, id, body) = 200
    THEN RepoUpdate(store, id, ModelDump(body), t)
    ELSE store

\* C23: an update request for a job never changes its status or attempts, whatever
\* the body, and a request whose body names status is answered 400 and leaves the table
\* as it was.
C23_UpdateFrame ==
    \A id \in {i \in DOMAIN jobs : Visible(jobs, i)}, body \in UpdateBodies :
       LET after == UpdateJob(jobs, id, body, now)
       IN /\ after[id].status = jobs[id].status
          /\ after[id].attempts = jobs[id].attempts
          /\ "status" \in DOMAIN body =>
                /\ UpdateJobResponse(jobs, id, body) = 400
                /\ after = jobs

\* C24 as claimed: no step lowers attempts of a job.
C24_Original ==
    [][\A id \in DOMAIN jobs \cap DOMAIN jobs' :
          jobs'[id].attempts >= jobs[id].attempts]_vars

\* C24: the only step that lowers attempts of a job is a manual retry of a failed job
\* with reset_attempts, which sets it to 0; every other step leaves attempts as it
\* was or, for a claim, adds one.
C24_AttemptsMonotone ==
    [][\A id \in DOMAIN jobs \cap DOMAIN jobs' :
          /\ jobs'[id].attempts < jobs[id].attempts =>
                /\ RetryStep(id)
                /\ jobs[id].status = "failed"
                /\ jobs'[id].attempts = 0
          /\ jobs'[id].attempts > jobs[id].attempts =>
                /\ jobs'[id].attempts = jobs[id].attempts + 1
                /\ \E w \in Workers : ClaimCommitStep(w) /\ claimTx[w].job = id]_vars

\* C24 witness: a job running its second execution with attempts 1, a manual retry
\* having set attempts back to 0 in between
C24_Witness ==
    \E id \in DOMAIN jobs :
        /\ hist[id].claims = 2
        /\ hist[id].manual
        /\ jobs[id].status = "running"
        /\ jobs[id].attempts = 1

\* ------------------------------------------------------------ default queries
\* QueueStatus: the statuses get_job_stats counts
QueueStatus == {"pending", "running", "completed", "failed", "cancelled"}

\* a base query that also selects the soft-deleted rows (include_deleted)
BaseQueryIncludeDeleted(store) == DOMAIN store

\* _get_base_query: the rows that are not soft-deleted
BaseQuery(store) == {id \in DOMAIN store : store[id].is_deleted = FALSE}

\* the WHERE built from a condition dict: every named column equals its value
Matches(row, condition) == \A k \in DOMAIN condition : row[k] = condition[k]

\* OFFSET skip LIMIT limit with no ORDER BY: the rows left after skipping skip of
\* them, limit at most, in whatever order the store scans them; every choice of rows
\* the store may make
Page(ids, skip, limit) ==
    LET n == Cardinality(ids)
        rest == IF n > skip THEN n - skip ELSE 0
    IN {S \in SUBSET ids : Cardinality(S) = Min(limit, rest)}

\* AsyncBaseRepository.get_paginated
GetPaginated(store, skip, limit) == Page(BaseQuery(store), skip, limit)

\* AsyncBaseRepository.get_by_condition (get_jobs_by_status, get_jobs_by_queue)
GetByCondition(store, condition, limit) ==
    Page({id \in BaseQuery(store) : Matches(store[id], condition)}, 0, limit)

\* AsyncBaseRepository.count (get_pending_jobs_count, get_running_jobs_count): it
\* carries its own is_deleted filter
Count(store, condition) ==
    Cardinality({id \in DOMAIN store :
                    store[id].is_deleted = FALSE /\ Matches(store[id], condition)})

\* JobRepository.get_job_stats: a count per status, then a count per queue name
GetJobStats(store) ==
    LET live == {id \in DOMAIN store : store[id].is_deleted = FALSE}
    IN [counts |-> [s \in QueueStatus |-> Count(store, [status |-> s])],
        queue_counts |-> [q \in {store[id].queue_name : id \in live} |->
                            Cardinality({id \in live : store[id].queue_name = q})]]

\* JobService.list_jobs: with a filter, get_by_condition and then the slice
\* jobs[skip:skip + limit if skip > 0 else jobs], whose end is the list itself when
\* skip is 0 (TypeError, answered 500); with no filter, get_paginated
ListJobs(store, condition, skip, limit) ==
    IF DOMAIN condition # {}
    THEN IF skip > 0
         THEN {[code |-> 200, jobs |-> T] :
                  T \in UNION {Page(S, skip, limit) :
                                  S \in GetByCondition(store, condition, limit)}}
         ELSE {[code |-> 500, jobs |-> {}]}
    ELSE {[code |-> 200, jobs |-> S] : S \in GetPaginated(store, skip, limit)}

\* the filters the list, count and statistics requests are checked with
QueryConditions ==
    {[queue_name |-> q] : q \in Queues}
        \cup {[status |-> s] : s \in QueueStatus}
        \cup {[queue_name |-> q, status |-> s] : q \in Queues, s \in QueueStatus}
        \cup {[job_type |-> t] : t \in JobTypes}
NoCondition == <<>>
QuerySkips == {0, 1}
QueryLimits == {1, 2}

\* the table without its soft-deleted rows
LiveJobs == [id \in {i \in DOMAIN jobs : ~jobs[i].is_deleted} |-> jobs[id]]

\* C25: a soft-deleted job is returned by no get, no list (filtered or not, at any
\* offset and limit) and no per-queue or per-status query, and the counts and the
\* statistics are those of the table without the soft-deleted rows.
C25_SoftDeletedInvisible ==
    /\ \A id \in DOMAIN jobs :
          jobs[id].is_deleted =>
             /\ GetJob(jobs, id) = NoJobResponse
             /\ \A skip \in QuerySkips, limit \in QueryLimits :
                   /\ \A r \in ListJobs(jobs, NoCondition, skip, limit) : id \notin r.jobs
                   /\ \A c \in QueryConditions :
                         /\ \A r \in ListJobs(jobs, c, skip, limit) : id \notin r.jobs
                         /\ \A S \in GetByCondition(jobs, c, limit) : id \notin S
    /\ \A c \in QueryConditions : Count(jobs, c) = Count(LiveJobs, c)
    /\ Count(jobs, NoCondition) = Count(LiveJobs, NoCondition)
    /\ GetJobStats(jobs) = GetJobStats(LiveJobs)

\* C25 witness: a soft-deleted row shares its queue and its status with a live job,
\* so that a query without the filter would return or count it
C25_Witness ==
    \E d \in DOMAIN jobs, id \in DOMAIN jobs :
        /\ jobs[d].is_deleted
        /\ ~jobs[id].is_deleted
        /\ jobs[id].queue_name = jobs[d].queue_name
        /\ jobs[id].status = jobs[d].status

\* ------------------------------------------------------ reset_stale_jobs, result
\* reset_stale_jobs: the value returned, the rowcount of the second UPDATE (the
\* rowcount of the bulk_update is dropped): the rows that are pending after the
\* bulk_update, soft-deleted or not, and were last updated before the cutoff
ResetStaleCount(store, stale_timeout_minutes, t) ==
    LET cutoff == t - 2 * stale_timeout_minutes
        first == [id \in DOMAIN store |->
                    IF store[id].status = "running"
                    THEN [store[id] EXCEPT !.status = "pending",
                                           !.scheduled_at = t, !.updated_at = t]
                    ELSE store[id]]
    IN Cardinality({id \in DOMAIN first :
                       first[id].status = "pending" /\ first[id].updated_at < cutoff})

\* the jobs a reset_stale_jobs call made at time t takes from running to pending
Reverted(store, stale_timeout_minutes, t) ==
    {id \in DOMAIN store :
        /\ store[id].status = "running"
        /\ ResetStaleJobs(store, stale_timeout_minutes, t)[id].status = "pending"}

\* C27: the number reset_stale_jobs returns is the number of jobs that call takes
\* from running to pending.
C27_ResetStaleCount ==
    \A stale_timeout_minutes \in {0, 1} :
        ResetStaleCount(jobs, stale_timeout_minutes, now)
            = Cardinality(Reverted(jobs, stale_timeout_minutes, now))

\* ------------------------------------------------------------------ shutdown
\* asyncio.wait(self.active_jobs, timeout=60): sixty seconds, in ticks
GraceTicks == 2
MaxShutdownTime == 2

\* the clock, far enough for the grace window to elapse
TickShutdown ==
    /\ now < MaxShutdownTime
    /\ now' = now + 1
    /\ UNCHANGED <<concurrency, should_shutdown, loop, stats, jobs, nextId, claimTx, producerTx, active,
                   current_poll_interval, adminOps, hist>>

\* signal_handler (SIGTERM, SIGINT) and stop(): the flag is set, at any point of the
\* loop
SignalHandler(w) ==
    /\ loop[w].pc # "exited"
    /\ ~should_shutdown[w]
    /\ should_shutdown' = [should_shutdown EXCEPT ![w] = TRUE]
    /\ UNCHANGED <<concurrency, loop, stats, jobs, nextId, now, claimTx, producerTx, active,
                   current_poll_interval, adminOps, hist>>

\* (a loop that enters an iteration whatever the flag)
IterStartNoTest(w) ==
    /\ loop[w].pc = "top"
    /\ claimTx[w] = NoTx
    /\ loop' = [loop EXCEPT ![w].pc = "iter", ![w].caught = "none", ![w].polled = "none"]
    /\ UNCHANGED <<concurrency, should_shutdown, stats, jobs, nextId, now, claimTx, producerTx, active,
                   current_poll_interval, adminOps, hist>>

\* _processing_loop: the while test passes and an iteration begins
IterStart(w) ==
    /\ loop[w].pc = "top"
    /\ ~should_shutdown[w]
    /\ claimTx[w] = NoTx
    /\ loop' = [loop EXCEPT ![w].pc = "iter", ![w].caught = "none", ![w].polled = "none"]
    /\ UNCHANGED <<concurrency, should_shutdown, stats, jobs, nextId, now, claimTx, producerTx, active,
                   current_poll_interval, adminOps, hist>>

\* _processing_loop: the while test fails; with tasks in active_jobs the worker
\* waits for them, sixty seconds at most, otherwise it is done
LoopExit(w) ==
    /\ loop[w].pc = "top"
    /\ should_shutdown[w]
    /\ loop' = [loop EXCEPT ![w] =
                  IF \E s \in Slots : active[w][s] # NoTask
                  THEN [pc |-> "wait", until |-> now + GraceTicks, caught |-> "none", polled |-> "none"]
                  ELSE [pc |-> "exited", until |-> 0, caught |-> "none", polled |-> "none"]]
    /\ UNCHANGED <<concurrency, should_shutdown, stats, jobs, nextId, now, claimTx, producerTx, active,
                   current_poll_interval, adminOps, hist>>

\* asyncio.wait returns with every task done
WaitDone(w) ==
    /\ loop[w].pc = "wait"
    /\ \A s \in Slots : active[w][s].pc \notin {"start", "exec"}
    /\ loop' = [loop EXCEPT ![w] = [pc |-> "exited", until |-> 0, caught |-> "none", polled |-> "none"]]
    /\ UNCHANGED <<concurrency, should_shutdown, stats, jobs, nextId, now, claimTx, producerTx, active,
                   current_poll_interval, adminOps, hist>>

\* (a timeout that fails the jobs of the tasks it cancels)
WaitTimeoutFailing(w) ==
    /\ loop[w].pc = "wait"
    /\ now >= loop[w].until
    /\ \E s \in Slots : active[w][s].pc \in {"start", "exec"}
    /\ active' = [active EXCEPT ![w] = [s \in Slots |->
                    IF @[s].pc \in {"start", "exec"} THEN [@[s] EXCEPT !.pc = "cancelled"]
                    ELSE @[s]]]
    /\ jobs' = [id \in DOMAIN jobs |->
                  IF \E s \in Slots : active[w][s].pc \in {"start", "exec"}
                                        /\ active[w][s].job = id
                  THEN [jobs[id] EXCEPT !.status = "failed"] ELSE jobs[id]]
    /\ stats' = [stats EXCEPT ![w].jobs_processed =
                    @ + Cardinality({s \in Slots : active[w][s].pc \in {"start", "exec"}})]
    /\ loop' = [loop EXCEPT ![w] = [pc |-> "exited", until |-> 0, caught |-> "none", polled |-> "none"]]
    /\ UNCHANGED <<concurrency, should_shutdown, nextId, now, claimTx, producerTx,
                   current_poll_interval, adminOps, hist>>

\* asyncio.wait times out: task.cancel() on every task not done; CancelledError is
\* not an Exception, so __process_job_async writes nothing and only its finally
\* clause runs (jobs_processed)
WaitTimeout(w) ==
    /\ loop[w].pc = "wait"
    /\ now >= loop[w].until
    /\ \E s \in Slots : active[w][s].pc \in {"start", "exec"}
    /\ active' = [active EXCEPT ![w] = [s \in Slots |->
                    IF @[s].pc \in {"start", "exec"} THEN [@[s] EXCEPT !.pc = "cancelled"]
                    ELSE @[s]]]
    /\ stats' = [stats EXCEPT ![w].jobs_processed =
                    @ + Cardinality({s \in Slots : active[w][s].pc \in {"start", "exec"}})]
    /\ loop' = [loop EXCEPT ![w] = [pc |-> "exited", until |-> 0, caught |-> "none", polled |-> "none"]]
    /\ UNCHANGED <<concurrency, should_shutdown, jobs, nextId, now, claimTx, producerTx,
                   current_poll_interval, adminOps, hist>>

\* the queue as the producer left it: one or two jobs enqueued at time 0 for the
\* queue both workers serve, due at once
QueuedJob == NewJob("emails", [EmptyPayload EXCEPT !.data = 1], "default", -1, 1, 0)

InitShutdown ==
    /\ jobs \in {<<QueuedJob>>, <<QueuedJob, QueuedJob>>}
    /\ hist = [id \in DOMAIN jobs |->
                 [NoHist EXCEPT !.created = JobResponse(id, jobs[id])]]
    /\ nextId = Len(jobs) + 1
    /\ now = 0
    /\ claimTx = [w \in Workers |-> NoTx]
    /\ producerTx = NoProducerTx
    /\ active = [w \in Workers |-> [s \in Slots |-> NoTask]]
    /\ current_poll_interval = [w \in Workers |-> poll_interval]
    /\ adminOps = 0
    /\ stats = [w \in Workers |-> NoStats]
    /\ should_shutdown = [w \in Workers |-> FALSE]
    /\ concurrency = [w \in Workers |-> max_concurrent_jobs]
    /\ loop = [w \in Workers |-> NoLoop]

NextShutdown ==
    \/ TickShutdown
    \/ \E w \in Workers : SignalHandler(w)
    \/ \E w \in Workers : IterStart(w)
    \/ \E w \in Workers : WorkerClaim(w)
    \/ \E w \in Workers : WorkerCommit(w)
    \/ \E w \in Workers : WorkerPollEmpty(w)
    \/ \E w \in Workers : WorkerNoSlot(w)
    \/ \E w \in Workers : LoopExit(w)
    \/ \E w \in Workers : WaitDone(w)
    \/ \E w \in Workers : WaitTimeout(w)
    \/ \E w \in Workers, s \in Slots : TaskStart(w, s)
    \/ \E w \in Workers, s \in Slots : TaskSucceed(w, s)
    \/ \E w \in Workers, s \in Slots : TaskFail(w, s)

SpecShutdown == InitShutdown /\ [][NextShutdown]_vars

\* the slots worker w has free once its finished tasks are cleaned up
FreeSlots(w) ==
    concurrency[w]
        - Cardinality({s \in Slots : active[w][s].pc \in {"start", "exec"}})

\* a pending job worker w could claim now
CanClaim(w) == Claimable(w) \ LockedRows # {}

\* C28: a worker never holds more than max_concurrent_jobs tasks; its claim statement
\* runs only in an iteration that found a free slot; an iteration that finds no free
\* slot claims nothing, writes nothing and leaves the poll interval as it is (it
\* sleeps poll_interval, no backoff).
C28_SlotAccounting ==
    /\ [](\A w \in Workers :
             Cardinality({s \in Slots : active[w][s] # NoTask}) <= concurrency[w])
    /\ [][\A w \in Workers :
             /\ ClaimStep(w) => FreeSlots(w) > 0
             /\ FreeSlots(w) <= 0 => claimTx'[w] = NoTx
             /\ (loop[w].pc = "iter" /\ loop'[w].pc = "top" /\ FreeSlots(w) <= 0) =>
                   /\ jobs' = jobs
                   /\ claimTx' = claimTx
                   /\ active' = active
                   /\ current_poll_interval' = current_poll_interval]_vars

\* C28 witness: a worker inside an iteration with every slot taken while a job it
\* could claim is waiting
C28_Witness ==
    \E w \in Workers :
        /\ loop[w].pc = "iter"
        /\ claimTx[w] = NoTx
        /\ FreeSlots(w) = 0
        /\ CanClaim(w)

\* C29: the flag, once set, stays set; no iteration begins with the flag set; a claim
\* statement made with the flag set belongs to the iteration that was in progress
\* when it was set; after the loop is left the worker neither claims nor moves a job
\* to running.
C29_ShutdownStopsClaims ==
    [][\A w \in Workers :
          /\ should_shutdown[w] => should_shutdown'[w]
          /\ (loop[w].pc = "top" /\ loop'[w].pc = "iter") => ~should_shutdown[w]
          /\ (should_shutdown[w] /\ ClaimStep(w)) => loop[w].pc = "iter"
          /\ (should_shutdown[w] /\ ClaimCommitStep(w)) => loop[w].pc = "iter"
          /\ loop[w].pc \in {"wait", "exited"} =>
                /\ loop'[w].pc \in {"wait", "exited"}
                /\ claimTx'[w] = NoTx
                /\ \A s \in Slots : active'[w][s].pc = "start" => active[w][s].pc = "start"
          /\ loop[w].pc = "exited" => loop'[w].pc = "exited"]_vars

\* C29 witness: a worker has left its loop on the flag while a job it could claim is
\* waiting
C29_Witness ==
    \E w \in Workers :
        /\ should_shutdown[w]
        /\ loop[w].pc = "exited"
        /\ CanClaim(w)

\* C30: a worker that leaves its loop with executions in flight waits for them; an
\* execution that ends during the wait records its outcome as ever; the wait ends
\* when every execution has ended or, at the timeout, by cancelling the others, which
\* writes nothing: each cancelled job is left running, and reset_stale_jobs puts it
\* back to pending.
C30_GracefulShutdown ==
    /\ [][\A w \in Workers :
             /\ (loop[w].pc = "top" /\ loop'[w].pc \in {"wait", "exited"}
                   /\ \E s \in Slots : active[w][s].pc \in {"start", "exec"}) =>
                   loop'[w].pc = "wait"
             /\ \A s \in Slots :
                   (loop[w].pc = "wait" /\ active[w][s].pc = "exec"
                       /\ active'[w][s].pc = "done") =>
                      LET id == active[w][s].job
                      IN /\ loop'[w].pc = "wait"
                         /\ jobs'[id].status \in {"completed", "failed", "pending"}
                         /\ hist'[id].op = "outcome"
                         /\ stats'[w].jobs_processed = stats[w].jobs_processed + 1
                         /\ stats'[w].jobs_succeeded + stats'[w].jobs_failed
                               = stats[w].jobs_succeeded + stats[w].jobs_failed + 1
             /\ (loop[w].pc = "wait" /\ loop'[w].pc = "exited") =>
                   \/ /\ \A s \in Slots : active[w][s].pc \notin {"start", "exec"}
                      /\ active' = active
                   \/ /\ now >= loop[w].until
                      /\ jobs' = jobs
                      /\ hist' = hist
                      /\ \A s \in Slots :
                            active[w][s].pc \in {"start", "exec"} =>
                               /\ active'[w][s].pc = "cancelled"
                               /\ jobs[active[w][s].job].status = "running"]_vars
    /\ [](\A w \in Workers, s \in Slots :
             active[w][s].pc = "cancelled" =>
                LET id == active[w][s].job
                IN /\ jobs[id].status = "running"
                   /\ hist[id].outcome = "running"
                   /\ \A stale_timeout_minutes \in {0, 1, 30} :
                         ResetStaleJobs(jobs, stale_timeout_minutes, now)[id].status
                            = "pending")

\* C30 witness: one worker has ended its wait by cancelling an execution, whose job
\* is left running, and the other has ended its wait with its execution completed
C30_Witness ==
    \E w \in Workers, v \in Workers, s \in Slots, r \in Slots :
        /\ loop[w].pc = "exited"
        /\ active[w][s].pc = "cancelled"
        /\ jobs[active[w][s].job].status = "running"
        /\ loop[v].pc = "exited"
        /\ should_shutdown[v]
        /\ active[v][r].pc = "done"
        /\ jobs[active[v][r].job].status = "completed"

\* ------------------------------------------------------------- the happy path
\* Workers that keep running (no shutdown signal) and handlers that succeed: no
\* operator call, no update, no cancel.
NextLive ==
    \/ Tick
    \/ Enqueue
    \/ \E w \in Workers : WorkerClaim(w)
    \/ \E w \in Workers : WorkerCommit(w)
    \/ \E w \in Workers : WorkerPollEmpty(w)
    \/ \E w \in Workers : WorkerNoSlot(w)
    \/ \E w \in Workers, s \in Slots : TaskStart(w, s)
    \/ \E w \in Workers, s \in Slots : TaskSucceed(w, s)

\* the loop of a live worker keeps iterating (claim, commit) and the event loop
\* keeps running the tasks it created
FairLive ==
    /\ \A w \in Workers : WF_vars(WorkerClaim(w)) /\ WF_vars(WorkerCommit(w))
    /\ \A w \in Workers, s \in Slots :
          WF_vars(TaskStart(w, s)) /\ WF_vars(TaskSucceed(w, s))

SpecLive == Init /\ [][NextLive]_vars /\ FairLive

\* job id is enqueued, due, of a type that has a handler, in a queue a worker serves
EligibleJob(id) ==
    /\ id \in DOMAIN jobs
    /\ ~jobs[id].is_deleted
    /\ jobs[id].status = "pending"
    /\ jobs[id].scheduled_at <= now
    /\ HasHandler(jobs[id].job_type)
    /\ \E w \in Workers : jobs[id].queue_name \in WorkerQueues(w)

\* job id is completed after one attempt, the handler's result in its payload
CompletedOnce(id) ==
    /\ id \in DOMAIN jobs
    /\ jobs[id].status = "completed"
    /\ jobs[id].attempts = 1
    /\ jobs[id].payload.result = "sent"

\* job id has gone pending -> running -> completed, or is on that way
HappyPathStep(id) ==
    jobs'[id].status # jobs[id].status =>
        \/ jobs[id].status = "pending" /\ jobs'[id].status = "running"
        \/ jobs[id].status = "running" /\ jobs'[id].status = "completed"

\* C26: with live workers and handlers that succeed, an eligible job eventually is
\* completed with attempts = 1 and the handler's result in its payload, and its
\* status changes only from pending to running and from running to completed.
C26_HappyPath ==
    /\ [][\A id \in DOMAIN jobs : HasHandler(jobs[id].job_type) => HappyPathStep(id)]_vars
    /\ \A id \in 1..MaxJobs :
          EligibleJob(id) ~>
             CompletedOnce(id)

\* the same for the jobs enqueued with a non-empty payload
C26_HappyPathNonEmptyPayload ==
    /\ [][\A id \in DOMAIN jobs : HasHandler(jobs[id].job_type) => HappyPathStep(id)]_vars
    /\ \A id \in 1..MaxJobs :
          (EligibleJob(id) /\ Truthy(jobs[id].payload)) ~>
             CompletedOnce(id)

\* ------------------------------------------------------------ store errors
\* (a loop without its try/except: the error of the claim ends the loop)
WorkerClaimErrorExits(w) ==
    /\ InLoop(w)
    /\ claimTx[w] = NoTx
    /\ LET tasks == Reap(active[w])
       IN /\ available_slots(w, tasks) > 0
          /\ active' = [active EXCEPT ![w] = tasks]
    /\ loop' = [loop EXCEPT ![w] = [pc |-> "exited", until |-> 0, caught |-> "claim", polled |-> "none"]]
    /\ UNCHANGED <<concurrency, should_shutdown, stats, jobs, nextId, now, claimTx, producerTx,
                   current_poll_interval, adminOps, hist>>

\* _processing_loop: claim_next_job raises (the statement or the flush fails
\* with an SQLAlchemyError): the repository rolls back and re-raises, the loop's
\* `except Exception` logs the error and sleeps poll_interval
WorkerClaimError(w) ==
    /\ InLoop(w)
    /\ claimTx[w] = NoTx
    /\ LET tasks == Reap(active[w])
       IN /\ available_slots(w, tasks) > 0
          /\ active' = [active EXCEPT ![w] = tasks]
          /\ current_poll_interval' =
                [current_poll_interval EXCEPT
                   ![w] = EndOfIteration("error", tasks, @).current_poll_interval]
    /\ loop' = [loop EXCEPT ![w].pc = "top", ![w].caught = "claim", ![w].polled = "none"]
    /\ UNCHANGED <<concurrency, should_shutdown, stats, jobs, nextId, now, claimTx, producerTx,
                   adminOps, hist>>

\* _processing_loop: db.commit() of the claim raises: the session is left without a
\* commit (the row keeps its old values, the lock is released), no task is
\* created, `except Exception` logs the error and sleeps poll_interval
WorkerCommitError(w) ==
    /\ claimTx[w] # NoTx
    /\ LET id == claimTx[w].job
       IN hist' = [hist EXCEPT ![id].claims = @ - 1, ![id].inPeriod = @ - 1,
                               ![id].outcome = claimTx[w].prev.outcome,
                               ![id].op = claimTx[w].prev.op]
    /\ claimTx' = [claimTx EXCEPT ![w] = NoTx]
    /\ current_poll_interval' =
          [current_poll_interval EXCEPT
             ![w] = EndOfIteration("error", active[w], @).current_poll_interval]
    /\ loop' = [loop EXCEPT ![w].pc = "top", ![w].caught = "commit", ![w].polled = "none"]
    /\ UNCHANGED <<concurrency, should_shutdown, stats, jobs, nextId, now, producerTx, active,
                   adminOps>>

\* __process_job_async: the read of the job raises, or the job_type is unknown
\* and mark_job_failed or its commit raises: the outer `except Exception` counts
\* a failure, the finally clause counts the execution; nothing is written
TaskStartStoreError(w, s) ==
    /\ active[w][s].pc = "start"
    /\ active' = [active EXCEPT ![w][s].pc = "done", ![w][s].store = "error"]
    /\ stats' = [stats EXCEPT ![w].jobs_failed = @ + 1, ![w].jobs_processed = @ + 1]
    /\ UNCHANGED <<concurrency, should_shutdown, loop, jobs, nextId, now, claimTx, producerTx,
                   current_poll_interval, adminOps, hist>>

\* (an execution that counts its success before the write of the outcome)
TaskSucceedStoreErrorCounted(w, s) ==
    /\ active[w][s].pc = "exec"
    /\ active' = [active EXCEPT ![w][s].pc = "done", ![w][s].handler = "returned",
                             ![w][s].store = "error"]
    /\ stats' = [stats EXCEPT ![w].jobs_succeeded = @ + 1, ![w].jobs_failed = @ + 1,
                              ![w].jobs_processed = @ + 1]
    /\ UNCHANGED <<concurrency, should_shutdown, loop, jobs, nextId, now, claimTx, producerTx,
                   current_poll_interval, adminOps, hist>>

\* __process_job_async: handler.execute returns and mark_job_completed or its
\* commit raises. The inner `except Exception` takes it for a handler failure
\* and calls mark_job_failed(retry=True): either that write and its commit go
\* through (recovered), or they raise too and the outer except is reached
TaskSucceedStoreError(w, s) ==
    /\ active[w][s].pc = "exec"
    /\ LET id == active[w][s].job
       IN \E recovered \in BOOLEAN :
            IF recovered
            THEN /\ id \notin LockedRows
                 /\ jobs' = MarkJobFailed(jobs, id, "store error", TRUE, now)
                 /\ hist' = [hist EXCEPT ![id] =
                               Outcome(@, Visible(jobs, id), jobs[id], jobs'[id], "failure")]
            ELSE UNCHANGED <<jobs, hist>>
    /\ active' = [active EXCEPT ![w][s].pc = "done", ![w][s].handler = "returned",
                             ![w][s].store = "error"]
    /\ stats' = [stats EXCEPT ![w].jobs_failed = @ + 1, ![w].jobs_processed = @ + 1]
    /\ UNCHANGED <<concurrency, should_shutdown, loop, nextId, now, claimTx, producerTx,
                   current_poll_interval, adminOps>>

\* (an execution whose failed outcome write escapes without the finally clause)
TaskFailStoreErrorUncounted(w, s) ==
    /\ active[w][s].pc = "exec"
    /\ active' = [active EXCEPT ![w][s].pc = "done", ![w][s].handler = "raised",
                             ![w][s].store = "error"]
    /\ stats' = [stats EXCEPT ![w].jobs_failed = @ + 1]
    /\ UNCHANGED <<concurrency, should_shutdown, loop, jobs, nextId, now, claimTx, producerTx,
                   current_poll_interval, adminOps, hist>>

\* __process_job_async: handler.execute raises and mark_job_failed or its commit
\* raises: the outer `except Exception` counts a failure; nothing is written
TaskFailStoreError(w, s) ==
    /\ active[w][s].pc = "exec"
    /\ active' = [active EXCEPT ![w][s].pc = "done", ![w][s].handler = "raised",
                             ![w][s].store = "error"]
    /\ stats' = [stats EXCEPT ![w].jobs_failed = @ + 1, ![w].jobs_processed = @ + 1]
    /\ UNCHANGED <<concurrency, should_shutdown, loop, jobs, nextId, now, claimTx, producerTx,
                   current_poll_interval, adminOps, hist>>

\* the queue as the producer left it: a job with a handler on the queue both
\* workers serve, and perhaps a job of an unknown type on the queue of w2
QueuedEmail == NewJob("emails", [EmptyPayload EXCEPT !.data = 1], "default", -1, 2, 0)

QueuedUnknown == NewJob("nope", [EmptyPayload EXCEPT !.data = 1], "mail", -1, 2, 0)

\* a worker pool with store errors: worker w2 runs PoolSize jobs at a time
InitErrors ==
    /\ jobs \in {<<QueuedEmail>>, <<QueuedEmail, QueuedUnknown>>}
    /\ nextId = Len(jobs) + 1
    /\ now = 0
    /\ claimTx = [w \in Workers |-> NoTx]
    /\ producerTx = NoProducerTx
    /\ active = [w \in Workers |-> [s \in Slots |-> NoTask]]
    /\ current_poll_interval = [w \in Workers |-> poll_interval]
    /\ adminOps = 0
    /\ stats = [w \in Workers |-> NoStats]
    /\ should_shutdown = [w \in Workers |-> FALSE]
    /\ concurrency = [w \in Workers |-> IF w = "w2" THEN PoolSize ELSE max_concurrent_jobs]
    /\ loop = [w \in Workers |-> NoLoop]
    /\ hist = [id \in DOMAIN jobs |->
                 [NoHist EXCEPT !.created = JobResponse(id, jobs[id])]]

NextErrors ==
    \/ Tick
    \/ \E w \in Workers : SignalHandler(w)
    \/ \E w \in Workers : IterStart(w)
    \/ \E w \in Workers : WorkerClaim(w)
    \/ \E w \in Workers : WorkerCommit(w)
    \/ \E w \in Workers : WorkerPollEmpty(w)
    \/ \E w \in Workers : WorkerNoSlot(w)
    \/ \E w \in Workers : WorkerClaimError(w)
    \/ \E w \in Workers : WorkerCommitError(w)
    \/ \E w \in Workers : LoopExit(w)
    \/ \E w \in Workers : WaitDone(w)
    \/ \E w \in Workers, s \in Slots : TaskStart(w, s)
    \/ \E w \in Workers, s \in Slots : TaskSucceed(w, s)
    \/ \E w \in Workers, s \in Slots : TaskFail(w, s)
    \/ \E w \in Workers, s \in Slots : TaskStartStoreError(w, s)
    \/ \E w \in Workers, s \in Slots : TaskSucceedStoreError(w, s)
    \/ \E w \in Workers, s \in Slots : TaskFailStoreError(w, s)

SpecErrors == InitErrors /\ [][NextErrors]_vars

\* ------------------------------------------------ the loop and store errors
\* the step in which the loop of worker w catches an exception
CaughtStep(w) == loop'[w].caught # "none" /\ loop'[w] # loop[w]

\* C31: the main loop never exits because of an error. A store error during the
\* claim or its commit is caught inside the loop: the worker is back at the while
\* test, it sleeps poll_interval with the poll interval unchanged, and nothing is
\* written. The loop is left only with should_shutdown set.
C31_LoopSurvivesErrors ==
    /\ [](\A w \in Workers : loop[w].pc \in {"wait", "exited"} => should_shutdown[w])
    /\ [][\A w \in Workers :
             /\ CaughtStep(w) =>
                   /\ loop'[w].pc = "top"
                   /\ claimTx'[w] = NoTx
                   /\ jobs' = jobs
                   /\ stats' = stats
                   /\ current_poll_interval'[w] = current_poll_interval[w]
                   /\ EndOfIteration("error", active'[w],
                                     current_poll_interval[w]).sleep = poll_interval
             /\ (loop[w].pc \in {"top", "iter"} /\ loop'[w].pc \in {"wait", "exited"})
                   => should_shutdown[w]]_vars

\* a worker that caught a commit error with a task of its own in flight is still
\* in its loop
C31_Witness ==
    \E w \in Workers :
       /\ loop[w].caught = "commit"
       /\ loop[w].pc = "top"
       /\ ~should_shutdown[w]
       /\ \E s \in Slots : active[w][s].pc = "exec"

\* C32: a store error during claim_next_job rolls the claim back (no row changes,
\* no claim stays open) and the caller gets "no job available": no exception of
\* claim_next_job reaches the loop, which goes on as after an empty claim.
C32_ClaimErrorReturnsNoJob ==
    /\ [](\A w \in Workers : loop[w].caught # "claim")
    /\ [][\A w \in Workers :
             (CaughtStep(w) /\ loop'[w].caught = "claim") =>
                /\ jobs' = jobs
                /\ claimTx'[w] = NoTx
                /\ current_poll_interval'[w] =
                      EndOfIteration("empty", active'[w],
                                     current_poll_interval[w]).current_poll_interval]_vars

\* the executions of worker w that end in the step
Ending(w) ==
    {s \in Slots : active[w][s].pc \in {"start", "exec"}
                   /\ active'[w][s].pc \notin {"start", "exec"}}

\* the executions of worker w in flight
Executing(w) == {s \in Slots : active[w][s].pc \in {"start", "exec"}}

RECURSIVE SumOver(_, _)
SumOver(f, S) ==
    IF S = {} THEN 0
    ELSE LET x == CHOOSE y \in S : TRUE IN f[x] + SumOver(f, S \ {x})

\* the executions ever created: every committed claim creates one
Created ==
    SumOver([id \in DOMAIN hist |-> hist[id].claims], DOMAIN hist)
        - Cardinality({w \in Workers : claimTx[w] # NoTx})

\* C33: every execution increments jobs_processed of its worker exactly once, when it
\* ends and whatever its outcome; the processed counters add up to the number of
\* finished executions (those created less those in flight).
C33_ProcessedOncePerExecution ==
    /\ [](SumOver([w \in Workers |-> stats[w].jobs_processed], Workers)
             = Created - SumOver([w \in Workers |-> Cardinality(Executing(w))], Workers))
    /\ [][\A w \in Workers :
             stats'[w].jobs_processed = stats[w].jobs_processed + Cardinality(Ending(w))]_vars

\* an execution whose handler returned ended on a store error that left the job
\* running, and it was counted
C33_Witness ==
    \E w \in Workers, s \in Slots :
       /\ active[w][s].pc = "done"
       /\ active[w][s].handler = "returned"
       /\ jobs[active[w][s].job].status = "running"
       /\ stats[w].jobs_processed = 2

\* the execution in slot s of worker w ends in the step on a store error
StoreErrorEnd(w, s) == s \in Ending(w) /\ active'[w][s].store = "error"

\* C34: when the write of an outcome fails with a store error, nothing of that write
\* stays in the store (the table is as before, or as one mark_job_failed that the
\* worker issued after a failed mark_job_completed left it), the worker counts the
\* job as failed (jobs_failed + 1, jobs_succeeded unchanged), the task ends
\* normally and the loop is not touched.
C34_OutcomeWriteError ==
    [][\A w \in Workers, s \in Slots :
          StoreErrorEnd(w, s) =>
             LET id == active[w][s].job
             IN /\ \/ jobs' = jobs
                   \/ /\ active'[w][s].handler = "returned"
                      /\ jobs' = MarkJobFailed(jobs, id, "store error", TRUE, now)
                /\ \A o \in DOMAIN jobs : jobs'[o].status # "completed" \/ jobs[o].status = "completed"
                /\ stats'[w].jobs_failed = stats[w].jobs_failed + 1
                /\ stats'[w].jobs_succeeded = stats[w].jobs_succeeded
                /\ active'[w][s].pc = "done"
                /\ loop' = loop
                /\ claimTx' = claimTx]_vars

\* a worker whose only execution ended on a store error (job left running, one
\* failure counted, no success) has reaped the task and is still in its loop
C34_Witness ==
    \E w \in Workers, id \in DOMAIN jobs :
       /\ stats[w] = [jobs_processed |-> 1, jobs_failed |-> 1, jobs_succeeded |-> 0]
       /\ \A s \in Slots : active[w][s] = NoTask
       /\ jobs[id].status = "running"
       /\ \A v \in Workers : claimTx[v] = NoTx /\ \A s \in Slots : active[v][s] = NoTask
       /\ loop[w].pc = "top"
       /\ ~should_shutdown[w]

\* ------------------------------------------------------- the poll interval
\* the step is the end of an iteration of w whose claim returned no row
EmptyClaimStep(w) ==
    /\ loop[w].pc = "iter"
    /\ loop'[w].pc = "top"
    /\ loop'[w].caught = "none"
    /\ claimTx[w] = NoTx
    /\ available_slots(w, Reap(active[w])) > 0

\* worker w has no task in active_jobs after the reaping
Idle(w) == \A s \in Slots : Reap(active[w])[s] = NoTask

\* C35: on an empty claim with no task in flight the worker sleeps for the value
\* current_poll_interval had before the step, and only then sets the interval to
\* min(current_poll_interval * backoff_factor, max_poll_interval).
C35_SleepThenGrow ==
    [][\A w \in Workers :
          (EmptyClaimStep(w) /\ Idle(w)) =>
             /\ EndOfIteration("empty", active'[w], current_poll_interval[w]).sleep
                   = current_poll_interval[w]
             /\ current_poll_interval'[w] =
                   Min(current_poll_interval[w] * backoff_factor, max_poll_interval)]_vars

\* the step is the end of an iteration of w that found no free slot
NoSlotStep(w) ==
    /\ loop[w].pc = "iter"
    /\ loop'[w].pc = "top"
    /\ loop'[w].caught = "none"
    /\ claimTx[w] = NoTx
    /\ ~(available_slots(w, Reap(active[w])) > 0)

\* the step commits a claim of w and the commit goes through
ClaimCommittedStep(w) == ClaimCommitStep(w) /\ loop'[w].caught = "none"

\* C36: current_poll_interval changes in two ways only: a successful claim resets it
\* to poll_interval, and it grows only at an empty claim made with no task in
\* flight. An empty claim made with a task in flight and an iteration without a
\* free slot sleep poll_interval and leave it as it is.
C36_PollIntervalFrame ==
    [][\A w \in Workers :
          /\ ClaimCommittedStep(w) => current_poll_interval'[w] = poll_interval
          /\ current_poll_interval'[w] # current_poll_interval[w] =>
                \/ ClaimCommittedStep(w)
                \/ /\ current_poll_interval'[w] > current_poll_interval[w]
                   /\ Idle(w)
                   /\ claimTx[w] = NoTx /\ claimTx'[w] = NoTx
                   /\ loop'[w].pc = "top" /\ loop'[w].caught = "none"
                   /\ available_slots(w, Reap(active[w])) > 0
                   /\ ClaimSelect(jobs, WorkerQueues(w), now, LockedRows) = 0
          /\ (EmptyClaimStep(w) /\ ~Idle(w)) =>
                /\ current_poll_interval'[w] = current_poll_interval[w]
                /\ EndOfIteration("empty", active'[w], current_poll_interval[w]).sleep
                      = poll_interval
          /\ NoSlotStep(w) =>
                /\ current_poll_interval'[w] = current_poll_interval[w]
                /\ EndOfIteration("noslot", active'[w], current_poll_interval[w]).sleep
                      = poll_interval]_vars

\* a worker that made an empty claim with one job executing has its interval at
\* poll_interval, beside a worker whose interval has grown
C36_Witness ==
    \E w \in Workers, v \in Workers :
       /\ loop[w].polled = "busy"
       /\ loop[w].pc = "top"
       /\ \E s \in Slots : active[w][s].pc = "exec"
       /\ current_poll_interval[w] = poll_interval
       /\ current_poll_interval[v] > poll_interval

\* ------------------------------------------------------ outcomes and counters
\* C37: an execution whose handler returned never causes a failure write for its
\* job: when it ends the job is not pending and not failed, no retry is scheduled
\* and payload.errors has no new entry.
C37_NoFailureWriteAfterSuccess ==
    [][\A w \in Workers, s \in Slots :
          (s \in Ending(w) /\ active'[w][s].handler = "returned") =>
             LET id == active[w][s].job
             IN /\ jobs'[id].status \notin {"pending", "failed"}
                /\ jobs'[id].scheduled_at = jobs[id].scheduled_at
                /\ jobs'[id].payload.errors = jobs[id].payload.errors]_vars

\* C38: every finished execution increments exactly one of jobs_succeeded and
\* jobs_failed, so with no execution in flight a worker's counters satisfy
\* jobs_processed = jobs_succeeded + jobs_failed.
C38_CountersConsistent ==
    /\ [](\A w \in Workers :
             Executing(w) = {} =>
                stats[w].jobs_processed = stats[w].jobs_succeeded + stats[w].jobs_failed)
    /\ [][\A w \in Workers :
             stats'[w].jobs_succeeded + stats'[w].jobs_failed
                = stats[w].jobs_succeeded + stats[w].jobs_failed + Cardinality(Ending(w))]_vars

\* the sleeps an iteration of worker w can end with in the current state
Sleeps(w) ==
    {EndOfIteration(met, Reap(active[w]), current_poll_interval[w]).sleep :
        met \in {"job", "empty", "noslot", "error"}}

\* C39: with poll_interval <= max_poll_interval and backoff_factor > 1 the interval
\* stays between poll_interval and max_poll_interval in every state, and no sleep
\* of the loop is longer than max_poll_interval.
C39_PollIntervalBounds ==
    \A w \in Workers :
       /\ poll_interval <= current_poll_interval[w]
       /\ current_poll_interval[w] <= max_poll_interval
       /\ \A d \in Sleeps(w) : d <= max_poll_interval

\* an idle worker whose interval is at the cap is about to back off again
C39_Witness ==
    /\ poll_interval <= max_poll_interval
    /\ backoff_factor > 1
    /\ \E w \in Workers :
          /\ current_poll_interval[w] = max_poll_interval
          /\ current_poll_interval[w] * backoff_factor > max_poll_interval
          /\ loop[w].pc = "iter"
          /\ Idle(w)
          /\ ClaimSelect(jobs, WorkerQueues(w), now, LockedRows) = 0

\* ------------------------------------------------------------------ progress
\* workers that are never told to stop, with store errors
NextProgress ==
    \/ Tick
    \/ \E w \in Workers : IterStart(w)
    \/ \E w \in Workers : WorkerClaim(w)
    \/ \E w \in Workers : WorkerCommit(w)
    \/ \E w \in Workers : WorkerPollEmpty(w)
    \/ \E w \in Workers : WorkerNoSlot(w)
    \/ \E w \in Workers : WorkerClaimError(w)
    \/ \E w \in Workers : WorkerCommitError(w)
    \/ \E w \in Workers, s \in Slots : TaskStart(w, s)
    \/ \E w \in Workers, s \in Slots : TaskSucceed(w, s)
    \/ \E w \in Workers, s \in Slots : TaskFail(w, s)
    \/ \E w \in Workers, s \in Slots : TaskStartStoreError(w, s)
    \/ \E w \in Workers, s \in Slots : TaskSucceedStoreError(w, s)
    \/ \E w \in Workers, s \in Slots : TaskFailStoreError(w, s)

\* a worker that does not crash: its loop keeps iterating, whatever an iteration
\* meets, and the event loop keeps running its tasks, whose handlers terminate
\* (by returning or by raising) and whose store calls return or raise
FairProgress ==
    /\ \A w \in Workers :
          WF_vars(IterStart(w) \/ WorkerClaim(w) \/ WorkerCommit(w) \/ WorkerPollEmpty(w)
                    \/ WorkerNoSlot(w) \/ WorkerClaimError(w) \/ WorkerCommitError(w))
    /\ \A w \in Workers, s \in Slots :
          /\ WF_vars(TaskStart(w, s) \/ TaskStartStoreError(w, s))
          /\ WF_vars(TaskSucceed(w, s) \/ TaskFail(w, s)
                       \/ TaskSucceedStoreError(w, s) \/ TaskFailStoreError(w, s))

SpecProgress == InitErrors /\ [][NextProgress]_vars /\ FairProgress

\* job id is running and a worker executes it
Executed(id) ==
    /\ id \in DOMAIN jobs
    /\ jobs[id].status = "running"
    /\ \E w \in Workers, s \in Slots :
          active[w][s].job = id /\ active[w][s].pc \in {"start", "exec"}

\* job id is running and its handler is being executed
HandlerRuns(id) ==
    /\ id \in DOMAIN jobs
    /\ jobs[id].status = "running"
    /\ \E w \in Workers, s \in Slots : active[w][s].job = id /\ active[w][s].pc = "exec"

\* job id is no longer running
LeftRunning(id) == id \in DOMAIN jobs /\ jobs[id].status \in {"completed", "failed", "pending"}

====
